---- MODULE Spec2Model ----
(***************************************************************************)
(* A model of distrepos (opensciencegrid/osg-repo-scripts): the per-tag    *)
(* pipeline run_one_tag, the three-tree rotation update_release_repos,     *)
(* the driver loop of main, and the lock protocol of acquire_lock and      *)
(* release_lock.                                                           *)
(*                                                                         *)
(* The specifications of the module share its variables; each holds the    *)
(* variables of the others at their idle values:                           *)
(*   Spec        one invocation of the program at a time: main iterates    *)
(*               the tag list and runs run_one_tag step by step; another   *)
(*               invocation appears only as a holder of a tag's lock.      *)
(*   SpecLive    Spec with weak fairness of its steps.                     *)
(*   SpecRotate  update_release_repos called directly on arbitrary         *)
(*               published/working/previous paths.                         *)
(*   SpecLock    several concurrent invocations interleaving the system    *)
(*               calls of acquire_lock and release_lock on one lock path.  *)
(*   SpecCondor  pull_condor_repos, transfer by transfer.                  *)
(*   SpecPkglist update_pkglist_files, file operation by file operation.   *)
(*   SpecMirror  update_mirrors_for_tag, probe by probe, with the rotation *)
(*               of the mirror list by update_release_repos, run after run.*)
(*   SpecMirrorLock  concurrent invocations running create_mirrorlists and *)
(*               update_mirrors_for_tag.                                   *)
(*   SpecConfig  get_taglist on one tagset section of the configuration.   *)
(*   SpecCreaterepo  run_createrepo, invocation by invocation.             *)
(*   SpecRsyncArgs   the argument list rsync_with_link builds.             *)
(*   SpecSymlink create_compat_symlink, system call by system call.        *)
(*   SpecLegacy  the legacy bin/update_mirror.py, statement by statement.  *)
(* main begins with parse_config, which selects the tag list of the run.   *)
(*                                                                         *)
(* Modelling decisions:                                                    *)
(*  - A directory tree is a value [snap, stage, mixed]: the upstream       *)
(*    snapshot it was synced from, how far the pipeline has assembled it,  *)
(*    and whether a foreign tree was moved inside it.                      *)
(*  - shutil.move between the three roots is a rename: it either happens   *)
(*    or raises OSError and changes nothing (the roots are siblings on one *)
(*    filesystem, which the --link-dest hard links require as well).  A    *)
(*    move onto an existing directory moves the source inside it, as       *)
(*    shutil.move does.                                                    *)
(*  - shutil.rmtree that raises may have removed part of the tree.         *)
(*  - Of release_lock's three calls only os.unlink is taken to raise.      *)
(*  - The shutil.move of a pkglist.new file onto pkglist is a rename too.  *)
(*  - A mirror list is a regular file; its content is a number encoding    *)
(*    the architecture and the hosts listed.  Ages are whole hours.        *)
(*  - An option value is a sequence over the characters "/" and "d".       *)
(*  - markers counts the timestamp marker files the program writes in a    *)
(*    run; no code of the program writes one.                              *)
(***************************************************************************)
EXTENDS Integers, Sequences, FiniteSets, TLC

\* ---------------------------------------------------------------- bounds
NTags == 2
MaxRuns == 2
MaxSnap == 2
NProc == 3
MaxRotCalls == 2
NArches == 2
NCondorRepos == 2
MaxFiles == 2
NHosts == 2
MaxOptLen == 2
MaxAgeDelta == 1
MaxTz == 1
MaxMirrorRuns == 3
NArchNames == 3
NLegacyTags == 2
NLegacyHosts == 3
MaxLegacyRuns == 2

\* ------------------------------------------------------ program constants
ERR_CONFIG == 3
ERR_RSYNC == 4
ERR_FAILURES == 5
ERR_EMPTY == 6
RSYNC_OK == 0
RSYNC_NOT_FOUND == 23
HTTP_OK == 200
MAX_AGE_HOURS == 24
\* stand-ins for the other exit codes of rsync: a syntax or usage error and
\* a timeout in data send/receive
RSYNC_OTHER == 1
RSYNC_TIMEOUT == 30
\* stand-in for the other HTTP status codes
HTTP_NOT_FOUND == 404

VARIABLES
    \* the filesystem, per tag (options.dest_root / working_root / previous_root + tag.dest)
    published, working, previous,
    \* upstream: the snapshot the "latest" symlink points to
    latest,
    \* options.lock_dir is set (locking enabled)
    lock_dir,
    \* the lock of the tag being processed: who holds the flock on the lock
    \* file ("free", "self", "other": another invocation), and whether the file exists
    lockHolder, lockFile,
    \* the running invocation: position, number of main() calls started, loop index
    pc, run, idx,
    \* run_one_tag locals: lock_fh (a handle is held), latest_dir, the pending exception
    lock_fh, latest_dir, pending,
    \* the steps run_one_tag has executed so far, in order
    steps,
    \* the value run_one_tag returned, or the exception it let propagate
    result,
    \* main locals
    successful, failed, attempted, exitcode,
    \* how the listing of check_rsync ended in this run ("none": not run)
    listing,
    \* the timestamp marker files main has written in this run
    markers,
    \* the length of the tag list parse_config returned in this run
    taglen,
    \* history: the trees when run_one_tag / update_release_repos was entered
    pubAtStart, prevAtStart, pubAtRot, workAtRot, prevAtRot,
    \* history of the current update_release_repos call
    rotMoved, rotFinalFailed, rotRollback, rotCalls, released,
    \* the lock protocol (SpecLock)
    lpc, lfd, pathIno, flockOwner, nextIno, lres, lran, lmir,
    \* the transfers of pull_condor_repos (SpecCondor)
    cNArch, cNRepo, cArch, cRepo, cpc, cLog, cResult,
    \* the files of update_pkglist_files (SpecPkglist)
    pFiles, pSrcDir, pName, pData, ppc, pArch, pResult,
    \* the probes of update_mirrors_for_tag (SpecMirror)
    mNArch, mTz, mArch, mHost, mGood, mProbed, mLast, mpc, mResult,
    \* one tag section of the configuration and what get_taglist makes of it
    \* (SpecConfig)
    gSection, gpc, gResult,
    \* the invocations of run_createrepo (SpecCreaterepo)
    crArches, crDebug, crRan, crArch, crpc, crLog, crResult,
    \* a call of rsync_with_link and the argument list it builds (SpecRsyncArgs)
    raSource, raDest, raLink, raLinkExists, raRecursive, raDelete, rapc, raArgs,
    \* the working tree around source/SRPMS and a call of create_compat_symlink
    \* (SpecSymlink)
    slDirs, slSource, slSRPMS, slBefore, slFault, slpc, slResult,
    \* the mirror directory, the host list and the loops of the legacy
    \* bin/update_mirror.py (SpecLegacy)
    lgRun, lgpc, lgPrev, lgNew, lgLive, lgTag, lgArch, lgHosts, lgIter, lgList,
    lgProbed, lgAtStart

fsVars == <<published, working, previous>>
envVars == <<latest, lock_dir>>
lockVars == <<lockHolder, lockFile>>
tagVars == <<lock_fh, latest_dir, pending, steps, result, released>>
mainVars == <<run, idx, successful, failed, attempted, exitcode, listing, markers, taglen>>
histVars == <<pubAtStart, prevAtStart, pubAtRot, workAtRot, prevAtRot>>
rotVars == <<rotMoved, rotFinalFailed, rotRollback, rotCalls>>
protoVars == <<lpc, lfd, pathIno, flockOwner, nextIno, lres, lran, lmir>>
condorVars == <<cNArch, cNRepo, cArch, cRepo, cpc, cLog, cResult>>
pkgVars == <<pFiles, pSrcDir, pName, pData, ppc, pArch, pResult>>
mirrorVars == <<mNArch, mTz, mArch, mHost, mGood, mProbed, mLast, mpc, mResult>>
configVars == <<gSection, gpc, gResult>>
repoVars == <<crArches, crDebug, crRan, crArch, crpc, crLog, crResult>>
argVars == <<raSource, raDest, raLink, raLinkExists, raRecursive, raDelete, rapc, raArgs>>
linkVars == <<slDirs, slSource, slSRPMS, slBefore, slFault, slpc, slResult>>
legacyVars == <<lgRun, lgpc, lgPrev, lgNew, lgLive, lgTag, lgArch, lgHosts, lgIter, lgList,
                lgProbed, lgAtStart>>
toolVars == <<repoVars, argVars, linkVars, legacyVars>>
partVars == <<condorVars, pkgVars, mirrorVars, configVars, toolVars>>
vars == <<published, working, previous, latest, lock_dir, lockHolder, lockFile,
          pc, run, idx, lock_fh, latest_dir, pending, steps, result,
          successful, failed, attempted, exitcode, listing, markers, taglen,
          pubAtStart, prevAtStart, pubAtRot, workAtRot, prevAtRot,
          rotMoved, rotFinalFailed, rotRollback, rotCalls, released,
          lpc, lfd, pathIno, flockOwner, nextIno, lres, lran, lmir,
          cNArch, cNRepo, cArch, cRepo, cpc, cLog, cResult,
          pFiles, pSrcDir, pName, pData, ppc, pArch, pResult,
          mNArch, mTz, mArch, mHost, mGood, mProbed, mLast, mpc, mResult,
          gSection, gpc, gResult,
          crArches, crDebug, crRan, crArch, crpc, crLog, crResult,
          raSource, raDest, raLink, raLinkExists, raRecursive, raDelete, rapc, raArgs,
          slDirs, slSource, slSRPMS, slBefore, slFault, slpc, slResult,
          lgRun, lgpc, lgPrev, lgNew, lgLive, lgTag, lgArch, lgHosts, lgIter, lgList,
          lgProbed, lgAtStart>>

\* ------------------------------------------------------------------ trees
Tags == 1..NTags
Taglist == [i \in 1..NTags |-> i]

Absent == [snap |-> -1, stage |-> "absent", mixed |-> FALSE]
EmptyDir == [snap |-> 0, stage |-> "empty", mixed |-> FALSE]
Tree(s, st) == [snap |-> s, stage |-> st, mixed |-> FALSE]
\* a tree left by an earlier, complete run on the oldest snapshot
SeedTree == Tree(0, "symlinked")

Exists(tree) == tree # Absent
\* a tree every step of the pipeline has been applied to
Complete(tree) == tree.stage = "symlinked" /\ ~tree.mixed
\* what a failed step or a failed recursive removal leaves behind: an
\* incomplete tree in an unspecified state (possibly the tree as it was)
Partial(tree) == [snap |-> 0, stage |-> "partial", mixed |-> tree.mixed]

\* ------------------------------------------------- run_one_tag: helpers
tag == Taglist[IF idx <= NTags THEN idx ELSE NTags]

NoResult == [kind |-> "none", ok |-> FALSE, msg |-> ""]
Return(ok, msg) == [kind |-> "return", ok |-> ok, msg |-> msg]
Raise(exc) == [kind |-> "raise", ok |-> FALSE, msg |-> exc]

\* the order in which run_one_tag calls its steps
StepOrder == <<"makedirs", "lock", "latest", "koji", "condor", "pkglist",
               "createrepo", "symlink", "rotation">>

\* A step of the try block ends: normally (the next step runs), or with an
\* exception (control goes to the finally clause); or its subprocess never
\* exits and the step never ends.
Continue(exc, next) ==
    /\ pending' = exc
    /\ pc' = CASE exc = "none" -> next
              [] exc = "hang" -> "hung"
              [] OTHER -> "finally"

\* whether the rsync calls of a step are given a timeout: get_koji_latest_dir
\* passes timeout=180; rsync_from_koji and pull_condor_repos call
\* rsync_with_link, which passes none to subprocess.run
HasTimeout(step) == step = "latest"

\* a step without a timeout can wait forever for a remote endpoint
Hang(step) == IF HasTimeout(step) THEN {} ELSE {"hang"}

\* os.makedirs(path, exist_ok=True) on a tree
Makedirs(tree) == IF Exists(tree) THEN tree ELSE EmptyDir

\* acquire_lock: the flock is granted unless another process holds it
AcquireLock(holder) == IF holder = "other" THEN "other" ELSE "self"

\* rsync --delete --recursive of one snapshot directory into dest
RsyncSnapshot(snapshot, dest) == Tree(snapshot, "synced")

\* the working tree after a step that only adds to it has succeeded
Advance(tree, stage) == [tree EXCEPT !.stage = stage]

\* shutil.move(src, dst): the tree found at dst afterwards (a regular file
\* at dst is replaced by the rename)
MoveInto(src, dst) ==
    IF Exists(dst) /\ dst.stage # "file" THEN [dst EXCEPT !.mixed = TRUE] ELSE src

\* ------------------------------------------------------ main: the driver
\* rsync --list-only of the koji endpoint: it exits 0, exits nonzero (or
\* cannot be started), or does not end within the timeout
ListingOutcomes == {"ok", "failed", "timeout"}

\* variant: a listing that times out is not an error
check_rsync_lenient(outcome) == IF outcome = "failed" THEN "ProgramError" ELSE "none"

\* check_rsync: the exception it raises, "none" when it returns
check_rsync(outcome) == IF outcome = "ok" THEN "none" ELSE "ProgramError"

\* variant: an empty tag list is returned to main
parse_config_unchecked(n) == "none"

\* parse_config: "if not taglist: raise ConfigError(...)", for a
\* configuration and command line that select n tags
parse_config(n) == IF n = 0 THEN "ConfigError" ELSE "none"

\* main, from parse_config and "Program started" to the head of the tag loop
main_start ==
    /\ pc \in {"idle", "exited"}
    /\ run < MaxRuns
    /\ run' = run + 1
    /\ idx' = 1
    /\ successful' = <<>>
    /\ failed' = <<>>
    /\ attempted' = <<>>
    /\ result' = NoResult
    /\ markers' = 0
    /\ \E n \in 0..NTags :
          /\ taglen' = n
          /\ IF parse_config(n) # "none"
             THEN /\ listing' = "none"
                  /\ pc' = "exited"
                  /\ exitcode' = ERR_CONFIG
             ELSE \E outcome \in ListingOutcomes :
                     /\ listing' = outcome
                     /\ IF check_rsync(outcome) = "none"
                        THEN pc' = "loop" /\ exitcode' = -1
                        ELSE pc' = "exited" /\ exitcode' = ERR_RSYNC
    /\ UNCHANGED <<fsVars, envVars, lockVars, lock_fh, latest_dir, pending, steps,
                   released, histVars, rotVars, protoVars, partVars>>

\* for tag in taglist: ... run_one_tag(options, tag) is entered; another
\* invocation of the program may hold this tag's lock for the time of the call
main_next_tag ==
    /\ pc = "loop"
    /\ idx <= taglen
    /\ attempted' = Append(attempted, tag)
    /\ steps' = <<>>
    /\ pending' = "none"
    /\ lock_fh' = FALSE
    /\ released' = "no"
    /\ latest_dir' = 0
    /\ result' = NoResult
    /\ pubAtStart' = published[tag]
    /\ prevAtStart' = previous[tag]
    /\ \E other \in {o \in BOOLEAN : o => lock_dir} :
          /\ lockHolder' = IF other THEN "other" ELSE "free"
          /\ lockFile' = other
    /\ pc' = "makedirs"
    /\ UNCHANGED <<fsVars, envVars, run, idx, successful, failed, exitcode, listing, markers, taglen,
                   pubAtRot, workAtRot, prevAtRot, rotVars, protoVars, partVars>>

\* ok, err = run_one_tag(...): the result is recorded, or the exception ends
\* main; the frame of run_one_tag is gone
main_record ==
    /\ pc = "returned"
    /\ IF result.kind = "return"
       THEN /\ successful' = IF result.ok THEN Append(successful, tag) ELSE successful
            /\ failed' = IF result.ok THEN failed ELSE Append(failed, <<tag, result.msg>>)
            /\ idx' = idx + 1
            /\ pc' = "loop"
            /\ UNCHANGED exitcode
       ELSE /\ exitcode' = IF result.msg = "ProgramError" THEN ERR_RSYNC ELSE 1
            /\ pc' = "exited"
            /\ UNCHANGED <<successful, failed, idx>>
    /\ lock_fh' = FALSE
    /\ latest_dir' = 0
    /\ pending' = "none"
    /\ steps' = <<>>
    /\ result' = NoResult
    /\ released' = "no"
    /\ pubAtStart' = Absent
    /\ prevAtStart' = Absent
    /\ pubAtRot' = [pubAtRot EXCEPT ![tag] = published[tag]]
    /\ workAtRot' = [workAtRot EXCEPT ![tag] = Absent]
    /\ prevAtRot' = [prevAtRot EXCEPT ![tag] = previous[tag]]
    /\ rotMoved' = FALSE
    /\ rotFinalFailed' = FALSE
    /\ rotRollback' = "none"
    /\ lockHolder' = "free"
    /\ lockFile' = FALSE
    /\ UNCHANGED <<fsVars, envVars, run, attempted, listing, markers, taglen, rotCalls, protoVars, partVars>>

\* variant: failed tags do not change the exit code
ExitCode_ignoresFailed(succ, fail) == IF succ = <<>> THEN ERR_EMPTY ELSE 0

\* if failed: return ERR_FAILURES / elif not successful: return ERR_EMPTY /
\* return 0
ExitCode(succ, fail) ==
    IF fail # <<>> THEN ERR_FAILURES
    ELSE IF succ = <<>> THEN ERR_EMPTY ELSE 0

\* after the loop: the report and the exit code
main_finish ==
    /\ pc = "loop"
    /\ idx > taglen
    /\ exitcode' = ExitCode(successful, failed)
    /\ pc' = "exited"
    /\ UNCHANGED <<fsVars, envVars, lockVars, run, idx, successful, failed, attempted,
                   listing, markers, taglen, tagVars, histVars, rotVars, protoVars, partVars>>

\* ------------------------------------------------- run_one_tag: the steps
\* os.makedirs(working_path, exist_ok=True)
makedirs_working ==
    /\ pc = "makedirs"
    /\ steps' = Append(steps, "makedirs")
    /\ \E ok \in BOOLEAN :
          IF ok
          THEN /\ working' = [working EXCEPT ![tag] = Makedirs(@)]
               /\ pc' = "lock"
               /\ UNCHANGED result
          ELSE /\ result' = Return(FALSE, "OSError creating working dir")
               /\ pc' = "returned"
               /\ UNCHANGED working
    /\ UNCHANGED <<published, previous, envVars, lockVars, mainVars, lock_fh,
                   latest_dir, pending, released, histVars, rotVars, protoVars, partVars>>

\* "Set up the lock file": makedirs(lock_dir), acquire_lock(lock_path)
lock_tag ==
    /\ pc = "lock"
    /\ IF ~lock_dir
       THEN /\ pc' = "latest"
            /\ UNCHANGED <<lockVars, lock_fh, result, steps>>
       ELSE /\ steps' = Append(steps, "lock")
            /\ \E opened \in BOOLEAN :
                  IF ~opened
                  THEN /\ result' = Return(FALSE, "OSError creating lockfile")
                       /\ pc' = "returned"
                       /\ UNCHANGED <<lockVars, lock_fh>>
                  ELSE /\ lockFile' = TRUE
                       /\ lockHolder' = AcquireLock(lockHolder)
                       /\ lock_fh' = (lockHolder # "other")
                       /\ IF lock_fh'
                          THEN pc' = "latest" /\ UNCHANGED result
                          ELSE /\ result' = Return(FALSE, "Another run in progress")
                               /\ pc' = "returned"
    /\ UNCHANGED <<fsVars, envVars, mainVars, latest_dir, pending, released,
                   histVars, rotVars, protoVars, partVars>>

\* latest_dir = get_koji_latest_dir(options.koji_rsync, tag.source)
get_koji_latest_dir ==
    /\ pc = "latest"
    /\ steps' = Append(steps, "latest")
    /\ \E exc \in {"none", "TagFailure", "ProgramError", "OSError"} \cup Hang("latest") :
          /\ Continue(exc, "koji")
          /\ latest_dir' = IF exc = "none" THEN latest ELSE latest_dir
    /\ UNCHANGED <<fsVars, envVars, lockVars, mainVars, lock_fh, result, released,
                   histVars, rotVars, protoVars, partVars>>

\* variant: dest_path and link_path swapped, the transfer writes into the
\* published tree
rsync_from_koji_swapped ==
    /\ pc = "koji"
    /\ steps' = Append(steps, "koji")
    /\ \E exc \in {"none", "TagFailure", "ProgramError"} :
          /\ Continue(exc, "condor")
          /\ CASE exc = "none" ->
                    published' = [published EXCEPT ![tag] = RsyncSnapshot(latest_dir, @)]
               [] exc = "TagFailure" ->
                    published' = [published EXCEPT ![tag] = Partial(RsyncSnapshot(latest_dir, @))]
               [] OTHER -> UNCHANGED published
    /\ UNCHANGED <<working, previous, envVars, lockVars, mainVars, lock_fh,
                   latest_dir, result, released, histVars, rotVars, protoVars, partVars>>

\* variant: the source URL names the "latest" pointer itself, resolved by the
\* transfer
SourceSnapshot_live(resolved, pointer) == pointer

\* source_url = f"{options.koji_rsync}/{tag.source}/{latest_dir}/": the
\* snapshot directory the transfer reads
SourceSnapshot(resolved, pointer) == resolved

\* rsync_from_koji(source_url, dest_path=working_path, link_path=release_path)
rsync_from_koji ==
    /\ pc = "koji"
    /\ steps' = Append(steps, "koji")
    /\ \E exc \in {"none", "TagFailure", "ProgramError"} \cup Hang("koji") :
          /\ Continue(exc, "condor")
          /\ CASE exc = "none" ->
                    working' = [working EXCEPT ![tag] =
                                   RsyncSnapshot(SourceSnapshot(latest_dir, latest), @)]
               [] exc \in {"TagFailure", "hang"} ->
                    working' = [working EXCEPT ![tag] =
                                   Partial(RsyncSnapshot(SourceSnapshot(latest_dir, latest), @))]
               [] OTHER -> UNCHANGED working
    /\ UNCHANGED <<published, previous, envVars, lockVars, mainVars, lock_fh,
                   latest_dir, result, released, histVars, rotVars, protoVars, partVars>>

\* a step that adds to the working tree: success moves it to `stage`, an
\* exception leaves an incomplete tree
WorkingStep(name, next, stage, excs) ==
    /\ steps' = Append(steps, name)
    /\ \E exc \in excs :
          /\ Continue(exc, next)
          /\ CASE exc = "none" ->
                    working' = [working EXCEPT ![tag] = Advance(@, stage)]
               [] OTHER ->
                    working' = [working EXCEPT ![tag] = Partial(@)]
    /\ UNCHANGED <<published, previous, envVars, lockVars, mainVars, lock_fh,
                   latest_dir, result, released, histVars, rotVars, protoVars, partVars>>

pull_condor_repos ==
    /\ pc = "condor"
    /\ WorkingStep("condor", "pkglist", "merged",
                   {"none", "TagFailure", "ProgramError"} \cup Hang("condor"))

update_pkglist_files ==
    /\ pc = "pkglist"
    /\ WorkingStep("pkglist", "createrepo", "indexed", {"none", "TagFailure"})

run_createrepo ==
    /\ pc = "createrepo"
    /\ WorkingStep("createrepo", "symlink", "repodata", {"none", "TagFailure", "OSError"})

create_compat_symlink ==
    /\ pc = "symlink"
    /\ WorkingStep("symlink", "rot_check", "symlinked", {"none", "TagFailure"})

\* ------------------------------------------------- update_release_repos
\* what a step of update_release_repos leaves alone
RotFrame ==
    UNCHANGED <<envVars, lockVars, mainVars, lock_fh, latest_dir, result, released,
                pubAtStart, prevAtStart, rotCalls, protoVars, partVars>>

\* update_release_repos ends: normally, or with exception exc
RotEnd(exc) ==
    /\ pending' = exc
    /\ pc' = "rot_ret"

\* variant: the sanity check is left out
WorkingExists_unchecked(work) == TRUE

\* "Sanity check": if not working_path.exists()
WorkingExists(work) == Exists(work)

\* variant: an old previous tree is not cleared
PreviousExists_never(prev) == FALSE

\* if previous_path.exists(): the old previous tree is cleared
PreviousExists(prev) == Exists(prev)

\* variant: the published tree is not moved out of the way
ReleaseExists_never(pub) == FALSE

\* if release_path.exists(): the published tree is moved to the previous path
ReleaseExists(pub) == Exists(pub)

\* variant: no move back after a failed final move
RollbackWanted_never(prev) == FALSE

\* "Undo, undo!" is attempted when the previous path exists
RollbackWanted(prev) == Exists(prev)

\* entry and "Sanity check: make sure we have something to move"
rot_check ==
    /\ pc = "rot_check"
    /\ steps' = Append(steps, "rotation")
    /\ pubAtRot' = [pubAtRot EXCEPT ![tag] = published[tag]]
    /\ workAtRot' = [workAtRot EXCEPT ![tag] = working[tag]]
    /\ prevAtRot' = [prevAtRot EXCEPT ![tag] = previous[tag]]
    /\ rotMoved' = FALSE
    /\ rotFinalFailed' = FALSE
    /\ rotRollback' = "none"
    /\ IF ~WorkingExists(working[tag])
       THEN RotEnd("TagFailure")
       ELSE pc' = "rot_clear" /\ pending' = "none"
    /\ UNCHANGED fsVars
    /\ RotFrame

\* a path that holds a regular file (a mirror list), not a directory
IsFile(tree) == tree.stage = "file"

\* if previous_path.exists(): shutil.rmtree(previous_path); rmtree raises
\* NotADirectoryError, an OSError, when the path is a regular file
rot_clear ==
    /\ pc = "rot_clear"
    /\ IF PreviousExists(previous[tag])
       THEN \E ok \in {b \in BOOLEAN : b => ~IsFile(previous[tag])} :
               IF ok
               THEN /\ previous' = [previous EXCEPT ![tag] = Absent]
                    /\ pc' = "rot_mkprev"
                    /\ UNCHANGED pending
               ELSE /\ previous' = [previous EXCEPT ![tag] =
                                        IF IsFile(@) THEN @ ELSE Partial(@)]
                    /\ RotEnd("TagFailure")
       ELSE pc' = "rot_mkprev" /\ UNCHANGED <<previous, pending>>
    /\ UNCHANGED <<published, working, steps, histVars, rotMoved, rotFinalFailed, rotRollback>>
    /\ RotFrame

\* previous_path.parent.mkdir(parents=True, exist_ok=True), outside any try
rot_mkprev ==
    /\ pc = "rot_mkprev"
    /\ \E ok \in BOOLEAN :
          IF ok THEN pc' = "rot_toprev" /\ UNCHANGED pending
          ELSE RotEnd("OSError")
    /\ UNCHANGED <<fsVars, steps, histVars, rotMoved, rotFinalFailed, rotRollback>>
    /\ RotFrame

\* if release_path.exists(): shutil.move(release_path, previous_path)
rot_toprev ==
    /\ pc = "rot_toprev"
    /\ IF ReleaseExists(published[tag])
       THEN \E ok \in BOOLEAN :
               IF ok
               THEN /\ previous' = [previous EXCEPT ![tag] = MoveInto(published[tag], @)]
                    /\ published' = [published EXCEPT ![tag] = Absent]
                    /\ rotMoved' = TRUE
                    /\ pc' = "rot_mkpub"
                    /\ UNCHANGED pending
               ELSE /\ RotEnd("TagFailure")
                    /\ UNCHANGED <<published, previous, rotMoved>>
       ELSE pc' = "rot_mkpub" /\ UNCHANGED <<published, previous, rotMoved, pending>>
    /\ UNCHANGED <<working, steps, histVars, rotFinalFailed, rotRollback>>
    /\ RotFrame

\* release_path.parent.mkdir(parents=True, exist_ok=True), outside any try
rot_mkpub ==
    /\ pc = "rot_mkpub"
    /\ \E ok \in BOOLEAN :
          IF ok THEN pc' = "rot_final" /\ UNCHANGED pending
          ELSE RotEnd("OSError")
    /\ UNCHANGED <<fsVars, steps, histVars, rotMoved, rotFinalFailed, rotRollback>>
    /\ RotFrame

\* shutil.move(working_path, release_path); it raises when there is nothing
\* at the working path
rot_final ==
    /\ pc = "rot_final"
    /\ \E ok \in {b \in BOOLEAN : b => Exists(working[tag])} :
          IF ok
          THEN /\ published' = [published EXCEPT ![tag] = MoveInto(working[tag], @)]
               /\ working' = [working EXCEPT ![tag] = Absent]
               /\ RotEnd("none")
               /\ UNCHANGED rotFinalFailed
          ELSE /\ rotFinalFailed' = TRUE
               /\ pc' = "rot_rollback"
               /\ UNCHANGED <<published, working, pending>>
    /\ UNCHANGED <<previous, steps, histVars, rotMoved, rotRollback>>
    /\ RotFrame

\* the except clause of the final move: move previous back, raise TagFailure
rot_rollback ==
    /\ pc = "rot_rollback"
    /\ IF RollbackWanted(previous[tag])
       THEN \E ok \in BOOLEAN :
               IF ok
               THEN /\ published' = [published EXCEPT ![tag] = MoveInto(previous[tag], @)]
                    /\ previous' = [previous EXCEPT ![tag] = Absent]
                    /\ rotRollback' = "done"
               ELSE /\ rotRollback' = "failed"
                    /\ UNCHANGED <<published, previous>>
       ELSE rotRollback' = "skipped" /\ UNCHANGED <<published, previous>>
    /\ RotEnd("TagFailure")
    /\ UNCHANGED <<working, steps, histVars, rotMoved, rotFinalFailed>>
    /\ RotFrame

\* --------------------------------------- run_one_tag: except and finally
\* except TagFailure: only this exception becomes a (False, message) result
Caught(exc) == exc = "TagFailure"

\* variant: release_lock returns without unlocking
ReleaseLock_noop(holder) == holder

\* release_lock(lock_fh, lock_path): unlock, close, unlink
ReleaseLock(holder) == IF holder = "self" THEN "free" ELSE holder

\* the result the try and except clauses of run_one_tag produce
PipelineResult(exc) ==
    IF exc = "none" THEN Return(TRUE, "")
    ELSE IF Caught(exc) THEN Return(FALSE, "TagFailure")
    ELSE Raise(exc)

\* variant: the OSError of release_lock leaves the finally clause
AfterRelease_propagates(res, unlinked) == IF unlinked THEN res ELSE Raise("OSError")

\* except OSError in the finally clause: a warning is logged and the result
\* of the pipeline stands
AfterRelease(res, unlinked) == res

\* the except and finally clauses and the return of run_one_tag
run_one_tag_finally ==
    /\ pc \in {"finally", "rot_ret"}
    /\ IF lock_fh
       THEN /\ lockHolder' = ReleaseLock(lockHolder)
            /\ \E unlinked \in BOOLEAN :
                  /\ lockFile' = ~unlinked
                  /\ released' = IF unlinked THEN "clean" ELSE "unlink_failed"
                  /\ result' = AfterRelease(PipelineResult(pending), unlinked)
       ELSE /\ result' = PipelineResult(pending)
            /\ UNCHANGED <<lockHolder, lockFile, released>>
    /\ lock_fh' = FALSE
    /\ pc' = "returned"
    /\ UNCHANGED <<fsVars, envVars, mainVars, latest_dir, pending, steps, histVars,
                   rotVars, protoVars, partVars>>

\* ------------------------------------------------------------ environment
\* upstream repoints "latest" to a newer snapshot
Repoint ==
    /\ latest < MaxSnap
    /\ latest' = latest + 1
    /\ UNCHANGED <<fsVars, lock_dir, lockVars, pc, mainVars, tagVars, histVars,
                   rotVars, protoVars, partVars>>

\* ------------------------------------------------------------------ Spec
ProtoIdle ==
    /\ lpc = [p \in 1..NProc |-> "done"]
    /\ lfd = [p \in 1..NProc |-> 0]
    /\ pathIno = 0
    /\ flockOwner = [i \in 1..NProc |-> 0]
    /\ nextIno = 1
    /\ lres = [p \in 1..NProc |-> "none"]
    /\ lran = [p \in 1..NProc |-> FALSE]
    /\ lmir = [p \in 1..NProc |-> "idle"]

TagIdle ==
    /\ lock_fh = FALSE
    /\ latest_dir = 0
    /\ pending = "none"
    /\ steps = <<>>
    /\ result = NoResult
    /\ released = "no"

RotIdle ==
    /\ rotMoved = FALSE
    /\ rotFinalFailed = FALSE
    /\ rotRollback = "none"

CondorIdle ==
    /\ cNArch = 0
    /\ cNRepo = 0
    /\ cArch = 0
    /\ cRepo = 0
    /\ cpc = "idle"
    /\ cLog = <<>>
    /\ cResult = "none"

PkgIdle ==
    /\ pFiles = {}
    /\ pSrcDir = FALSE
    /\ pName = <<>>
    /\ pData = <<>>
    /\ ppc = "idle"
    /\ pArch = 0
    /\ pResult = "none"

\* no probe was made yet
NoProbe == [status |-> 0, header |-> "none", age |-> 0, out |-> "none"]

MirrorIdle ==
    /\ mNArch = 0
    /\ mTz = 0
    /\ mArch = 0
    /\ mHost = 0
    /\ mGood = <<>>
    /\ mProbed = [k \in (1..NArches) \X (1..NHosts) |-> "unprobed"]
    /\ mLast = NoProbe
    /\ mpc = "idle"
    /\ mResult = NoResult

\* an option of a section: whether it is set, and its value as a sequence
\* of characters
Opt(present, val) == [present |-> present, val |-> val]
NoTag == [kind |-> "none", opt |-> "", dest |-> <<>>, arches |-> <<>>,
          arch_rpms_subdir |-> <<>>, source_rpms_subdir |-> <<>>]

ConfigIdle ==
    /\ gSection = <<>>
    /\ gpc = "idle"
    /\ gResult = NoTag

RepoIdle ==
    /\ crArches = <<>>
    /\ crDebug = {}
    /\ crRan = FALSE
    /\ crArch = 0
    /\ crpc = "idle"
    /\ crLog = <<>>
    /\ crResult = "none"

ArgIdle ==
    /\ raSource = ""
    /\ raDest = ""
    /\ raLink = "None"
    /\ raLinkExists = FALSE
    /\ raRecursive = TRUE
    /\ raDelete = TRUE
    /\ rapc = "idle"
    /\ raArgs = <<>>

\* a directory entry: nothing, a directory, a regular file or a symbolic
\* link with its target
Entry(kind, target) == [kind |-> kind, target |-> target]
NoEntry == Entry("absent", <<>>)

LinkIdle ==
    /\ slDirs = {}
    /\ slSource = "absent"
    /\ slSRPMS = NoEntry
    /\ slBefore = NoEntry
    /\ slFault = FALSE
    /\ slpc = "idle"
    /\ slResult = "none"

LegacyIdle ==
    /\ lgRun = 0
    /\ lgpc = "idle"
    /\ lgPrev = "absent"
    /\ lgNew = "absent"
    /\ lgLive = "absent"
    /\ lgTag = 0
    /\ lgArch = 0
    /\ lgHosts = <<>>
    /\ lgIter = 0
    /\ lgList = <<>>
    /\ lgProbed = <<>>
    /\ lgAtStart = <<>>

ToolIdle ==
    /\ RepoIdle
    /\ ArgIdle
    /\ LinkIdle
    /\ LegacyIdle

PartIdle ==
    /\ CondorIdle
    /\ PkgIdle
    /\ MirrorIdle
    /\ ConfigIdle
    /\ ToolIdle

Init ==
    /\ \E pub \in {Absent, SeedTree}, prev \in {Absent, SeedTree} :
          /\ published = [t \in Tags |-> pub]
          /\ previous = [t \in Tags |-> prev]
          /\ pubAtRot = [t \in Tags |-> pub]
          /\ prevAtRot = [t \in Tags |-> prev]
          /\ pubAtStart = Absent
          /\ prevAtStart = Absent
    /\ working = [t \in Tags |-> Absent]
    /\ workAtRot = [t \in Tags |-> Absent]
    /\ latest = 1
    /\ lock_dir \in BOOLEAN
    /\ lockHolder = "free"
    /\ lockFile = FALSE
    /\ pc = "idle"
    /\ run = 0
    /\ idx = 1
    /\ successful = <<>>
    /\ failed = <<>>
    /\ attempted = <<>>
    /\ exitcode = -1
    /\ listing = "none"
    /\ markers = 0
    /\ taglen = 0
    /\ rotCalls = 0
    /\ TagIdle
    /\ RotIdle
    /\ ProtoIdle
    /\ PartIdle

Next ==
    \/ main_start
    \/ main_next_tag
    \/ main_record
    \/ main_finish
    \/ makedirs_working
    \/ lock_tag
    \/ get_koji_latest_dir
    \/ rsync_from_koji
    \/ pull_condor_repos
    \/ update_pkglist_files
    \/ run_createrepo
    \/ create_compat_symlink
    \/ rot_check
    \/ rot_clear
    \/ rot_mkprev
    \/ rot_toprev
    \/ rot_mkpub
    \/ rot_final
    \/ rot_rollback
    \/ run_one_tag_finally
    \/ Repoint

Spec == Init /\ [][Next]_vars

\* the program keeps running while a step can be taken: the interpreter runs
\* the next statement and a subprocess that exits is reaped
SpecLive == Spec /\ WF_vars(Next)

\* ------------------------------------------------------------ SpecRotate
\* the trees update_release_repos may find at a path
RotTrees == {Tree(s, "symlinked") : s \in 0..MaxSnap} \cup {Partial(SeedTree)}

\* a caller calls update_release_repos again with the same three paths; it
\* keeps in result how the call before ended
rot_call_again ==
    /\ pc = "rot_ret"
    /\ rotCalls < MaxRotCalls
    /\ rotCalls' = rotCalls + 1
    /\ pc' = "rot_check"
    /\ result' = IF pending = "none" THEN Return(TRUE, "") ELSE Raise(pending)
    /\ pending' = "none"
    /\ UNCHANGED <<fsVars, envVars, lockVars, mainVars, lock_fh, latest_dir, steps,
                   released, histVars, rotMoved, rotFinalFailed, rotRollback,
                   protoVars, partVars>>

InitRotate ==
    /\ \E pub \in RotTrees \cup {Absent}, work \in RotTrees \cup {Absent},
          prev \in RotTrees \cup {Absent} :
          /\ published = [t \in Tags |-> IF t = 1 THEN pub ELSE Absent]
          /\ working = [t \in Tags |-> IF t = 1 THEN work ELSE Absent]
          /\ previous = [t \in Tags |-> IF t = 1 THEN prev ELSE Absent]
          /\ pubAtRot = published
          /\ workAtRot = working
          /\ prevAtRot = previous
    /\ pubAtStart = Absent
    /\ prevAtStart = Absent
    /\ latest = 1
    /\ lock_dir = FALSE
    /\ lockHolder = "free"
    /\ lockFile = FALSE
    /\ pc = "rot_check"
    /\ run = 0
    /\ idx = 1
    /\ successful = <<>>
    /\ failed = <<>>
    /\ attempted = <<>>
    /\ exitcode = -1
    /\ listing = "none"
    /\ markers = 0
    /\ taglen = 0
    /\ rotCalls = 1
    /\ TagIdle
    /\ RotIdle
    /\ ProtoIdle
    /\ PartIdle

NextRotate ==
    \/ rot_check
    \/ rot_clear
    \/ rot_mkprev
    \/ rot_toprev
    \/ rot_mkpub
    \/ rot_final
    \/ rot_rollback
    \/ rot_call_again

SpecRotate == InitRotate /\ [][NextRotate]_vars

\* -------------------------------------------------------------- SpecLock
\* Concurrent invocations 1..NProc of the program, each running the lock
\* protocol of run_one_tag on the same tag: one lock path, whose lock file
\* is an inode (0: the path does not exist); lfd[p] is the inode the file
\* handle of p is open on (0: no handle); flockOwner[i] is the process whose
\* open file holds the flock on inode i (0: none).
Procs == 1..NProc
Inodes == 1..NProc

seqVars ==
    <<published, working, previous, latest, lock_dir, lockHolder, lockFile,
      pc, run, idx, lock_fh, latest_dir, pending, steps, result,
      successful, failed, attempted, exitcode, listing, markers, taglen,
      pubAtStart, prevAtStart, pubAtRot, workAtRot, prevAtRot,
      rotMoved, rotFinalFailed, rotRollback, rotCalls, released>>

\* p holds a lock handle returned by acquire_lock and has not yet unlocked it
Holds(p) == lpc[p] \in {"held", "unlock"}

\* fcntl.flock(fd, LOCK_EX | LOCK_NB) succeeds iff no other open file holds
\* the flock on the inode
FlockGranted(p) == flockOwner[lfd[p]] \in {0, p}

\* acquire_lock: filehandle = open(lock_path, "w")
l_open(p) ==
    /\ lpc[p] = "open"
    /\ IF pathIno = 0
       THEN /\ pathIno' = nextIno
            /\ nextIno' = nextIno + 1
            /\ lfd' = [lfd EXCEPT ![p] = nextIno]
       ELSE /\ lfd' = [lfd EXCEPT ![p] = pathIno]
            /\ UNCHANGED <<pathIno, nextIno>>
    /\ lpc' = [lpc EXCEPT ![p] = "flock"]
    /\ UNCHANGED <<flockOwner, lres, lran, lmir, seqVars, partVars>>

\* acquire_lock: the flock call; on BlockingIOError it returns None (the
\* file object is dropped and closed) and run_one_tag returns (False,
\* "Another run in progress ...")
l_flock(p) ==
    /\ lpc[p] = "flock"
    /\ IF FlockGranted(p)
       THEN /\ flockOwner' = [flockOwner EXCEPT ![lfd[p]] = p]
            /\ lpc' = [lpc EXCEPT ![p] = "held"]
            /\ UNCHANGED <<lfd, lres>>
       ELSE /\ lfd' = [lfd EXCEPT ![p] = 0]
            /\ lres' = [lres EXCEPT ![p] = "busy"]
            /\ lpc' = [lpc EXCEPT ![p] = "done"]
            /\ UNCHANGED flockOwner
    /\ UNCHANGED <<pathIno, nextIno, lran, lmir, seqVars, partVars>>

\* the try block of run_one_tag: the pipeline steps, run with the handle held
l_pipeline(p) ==
    /\ lpc[p] = "held"
    /\ lran' = [lran EXCEPT ![p] = TRUE]
    /\ lpc' = [lpc EXCEPT ![p] = "unlock"]
    /\ UNCHANGED <<lfd, pathIno, flockOwner, nextIno, lres, lmir, seqVars, partVars>>

\* release_lock: fcntl.flock(filedescriptor, fcntl.LOCK_UN)
l_unlock(p) ==
    /\ lpc[p] = "unlock"
    /\ flockOwner' = [flockOwner EXCEPT ![lfd[p]] = 0]
    /\ lpc' = [lpc EXCEPT ![p] = "close"]
    /\ UNCHANGED <<lfd, pathIno, nextIno, lres, lran, lmir, seqVars, partVars>>

\* release_lock: lock_fh.close()
l_close(p) ==
    /\ lpc[p] = "close"
    /\ lfd' = [lfd EXCEPT ![p] = 0]
    /\ lpc' = [lpc EXCEPT ![p] = "unlink"]
    /\ UNCHANGED <<pathIno, flockOwner, nextIno, lres, lran, lmir, seqVars, partVars>>

\* release_lock: os.unlink(lock_path) removes whatever file is at the path;
\* with no file there it raises, which run_one_tag only logs
l_unlink(p) ==
    /\ lpc[p] = "unlink"
    /\ pathIno' = 0
    /\ lres' = [lres EXCEPT ![p] = "returned"]
    /\ lpc' = [lpc EXCEPT ![p] = "done"]
    /\ UNCHANGED <<lfd, flockOwner, nextIno, lran, lmir, seqVars, partVars>>

\* the sequential program has not started
SeqIdle ==
    /\ published = [t \in Tags |-> Absent]
    /\ working = [t \in Tags |-> Absent]
    /\ previous = [t \in Tags |-> Absent]
    /\ pubAtRot = published
    /\ workAtRot = working
    /\ prevAtRot = previous
    /\ pubAtStart = Absent
    /\ prevAtStart = Absent
    /\ latest = 1
    /\ lock_dir = TRUE
    /\ lockHolder = "free"
    /\ lockFile = FALSE
    /\ pc = "idle"
    /\ run = 0
    /\ idx = 1
    /\ successful = <<>>
    /\ failed = <<>>
    /\ attempted = <<>>
    /\ exitcode = -1
    /\ listing = "none"
    /\ markers = 0
    /\ taglen = 0
    /\ rotCalls = 0
    /\ TagIdle
    /\ RotIdle

InitLock ==
    /\ SeqIdle
    /\ PartIdle
    /\ lpc = [p \in Procs |-> "open"]
    /\ lfd = [p \in Procs |-> 0]
    /\ pathIno = 0
    /\ flockOwner = [i \in Inodes |-> 0]
    /\ nextIno = 1
    /\ lres = [p \in Procs |-> "none"]
    /\ lran = [p \in Procs |-> FALSE]
    /\ lmir = [p \in Procs |-> "idle"]

NextLock ==
    \/ \E p \in Procs : l_open(p)
    \/ \E p \in Procs : l_flock(p)
    \/ \E p \in Procs : l_pipeline(p)
    \/ \E p \in Procs : l_unlock(p)
    \/ \E p \in Procs : l_close(p)
    \/ \E p \in Procs : l_unlink(p)

SpecLock == InitLock /\ [][NextLock]_vars

\* -------------------------------------------------------- SpecMirrorLock
\* Several concurrent invocations, each running create_mirrorlists on the
\* lock path "mirrors" and update_mirrors_for_tag on one tag.  The try
\* block of create_mirrorlists is `pass`; update_mirrors_for_tag takes no
\* lock itself and nothing calls it from inside create_mirrorlists, so its
\* steps are not ordered with the steps of the lock protocol.  lmir[p] is
\* how far p's update_mirrors_for_tag got: "idle", "written" (the working
\* file is written), "rotated" (update_release_repos has ended).

\* create_mirrorlists: try: pass
l_pass(p) ==
    /\ lpc[p] = "held"
    /\ lpc' = [lpc EXCEPT ![p] = "unlock"]
    /\ UNCHANGED <<lfd, pathIno, flockOwner, nextIno, lres, lran, lmir, seqVars, partVars>>

\* update_mirrors_for_tag: open(working_path, 'w'), mirrorf.write(...)
u_write(p) ==
    /\ lmir[p] = "idle"
    /\ lmir' = [lmir EXCEPT ![p] = "written"]
    /\ UNCHANGED <<lpc, lfd, pathIno, flockOwner, nextIno, lres, lran, seqVars, partVars>>

\* update_mirrors_for_tag: update_release_repos(dest_path, working_path, prev_path)
u_rotate(p) ==
    /\ lmir[p] = "written"
    /\ lmir' = [lmir EXCEPT ![p] = "rotated"]
    /\ UNCHANGED <<lpc, lfd, pathIno, flockOwner, nextIno, lres, lran, seqVars, partVars>>

NextMirrorLock ==
    \/ \E p \in Procs : l_open(p)
    \/ \E p \in Procs : l_flock(p)
    \/ \E p \in Procs : l_pass(p)
    \/ \E p \in Procs : l_unlock(p)
    \/ \E p \in Procs : l_close(p)
    \/ \E p \in Procs : l_unlink(p)
    \/ \E p \in Procs : u_write(p)
    \/ \E p \in Procs : u_rotate(p)

SpecMirrorLock == InitLock /\ [][NextMirrorLock]_vars

\* ------------------------------------------------------------ SpecCondor
\* pull_condor_repos transfer by transfer: for each architecture and each
\* condor repo the binary RPMs, the debug RPMs and, for the first
\* architecture only, the source RPMs.  Each transfer ends with an exit code
\* of rsync, or rsync cannot be started.
ExitCodes == {RSYNC_OK, RSYNC_NOT_FOUND, RSYNC_OTHER, RSYNC_TIMEOUT}

\* util.rsync: ok is (proc.returncode == 0)
RsyncOk(code) == code = RSYNC_OK

\* variant: a missing debug directory fails the tag
DebugTransferFailed_strict(code) == code # RSYNC_OK

\* the debug transfer: proc.returncode not in {RSYNC_OK, RSYNC_NOT_FOUND}
DebugTransferFailed(code) == code \notin {RSYNC_OK, RSYNC_NOT_FOUND}

\* rsync_with_link(src + "*.rpm", dst, link, delete=False, recursive=False)
\* of the current architecture and repo, dst built from working_root and
\* link from dest_root: the transfer is logged with how it ended
Logged(kind, code) ==
    cLog' = Append(cLog, [kind |-> kind, arch |-> cArch, repo |-> cRepo, code |-> code,
                          delete |-> FALSE, recursive |-> FALSE,
                          dst_root |-> "working_root", link_root |-> "dest_root"])

\* variant: the source RPMs are pulled for every architecture
FirstArch_every(arch) == TRUE

\* "if idx == 0": the source RPMs are pulled on the first architecture only
FirstArch(arch) == arch = 1

\* pull_condor_repos raises
CondorRaise(exc) ==
    /\ cResult' = exc
    /\ cpc' = "done"
    /\ UNCHANGED <<cArch, cRepo>>

\* the loops "for idx, arch in enumerate(tag.arches): for repo in
\* tag.condor_repos" move on; the function returns after the last pair
CondorAdvance ==
    IF cRepo < cNRepo
    THEN cRepo' = cRepo + 1 /\ cpc' = "binary" /\ UNCHANGED <<cArch, cResult>>
    ELSE IF cArch < cNArch
         THEN /\ cArch' = cArch + 1
              /\ cRepo' = 1
              /\ cpc' = "binary"
              /\ UNCHANGED cResult
         ELSE /\ cResult' = "ok"
              /\ cpc' = "done"
              /\ UNCHANGED <<cArch, cRepo>>

\* "First, pull the main (binary) RPMs"
condor_binary ==
    /\ cpc = "binary"
    /\ \/ \E code \in ExitCodes :
             /\ Logged("binary", code)
             /\ IF RsyncOk(code)
                THEN cpc' = "debug" /\ UNCHANGED <<cArch, cRepo, cResult>>
                ELSE CondorRaise("TagFailure")
       \/ UNCHANGED cLog /\ CondorRaise("ProgramError")
    /\ UNCHANGED <<cNArch, cNRepo, seqVars, protoVars, pkgVars, mirrorVars, configVars, toolVars>>

\* "Next pull the debuginfo RPMs.  These may not exist."
condor_debug ==
    /\ cpc = "debug"
    /\ \/ \E code \in ExitCodes :
             /\ Logged("debug", code)
             /\ IF DebugTransferFailed(code)
                THEN CondorRaise("TagFailure")
                ELSE IF FirstArch(cArch)
                     THEN cpc' = "source" /\ UNCHANGED <<cArch, cRepo, cResult>>
                     ELSE CondorAdvance
       \/ UNCHANGED cLog /\ CondorRaise("ProgramError")
    /\ UNCHANGED <<cNArch, cNRepo, seqVars, protoVars, pkgVars, mirrorVars, configVars, toolVars>>

\* "Finally pull the SRPMs", only "if idx == 0"
condor_source ==
    /\ cpc = "source"
    /\ \/ \E code \in ExitCodes :
             /\ Logged("source", code)
             /\ IF RsyncOk(code)
                THEN CondorAdvance
                ELSE CondorRaise("TagFailure")
       \/ UNCHANGED cLog /\ CondorRaise("ProgramError")
    /\ UNCHANGED <<cNArch, cNRepo, seqVars, protoVars, pkgVars, mirrorVars, configVars, toolVars>>

\* pull_condor_repos is called for a tag with some architectures and some
\* condor repos (possibly none)
InitCondor ==
    /\ SeqIdle
    /\ ProtoIdle
    /\ PkgIdle
    /\ MirrorIdle
    /\ ConfigIdle
    /\ ToolIdle
    /\ cNArch \in 1..NArches
    /\ cNRepo \in 0..NCondorRepos
    /\ cArch = 1
    /\ cRepo = IF cNRepo = 0 THEN 0 ELSE 1
    /\ cpc = IF cNRepo = 0 THEN "done" ELSE "binary"
    /\ cLog = <<>>
    /\ cResult = IF cNRepo = 0 THEN "ok" ELSE "none"

NextCondor ==
    \/ condor_binary
    \/ condor_debug
    \/ condor_source

SpecCondor == InitCondor /\ [][NextCondor]_vars

\* ----------------------------------------------------------- SpecPkglist
\* update_pkglist_files on a working tree: file names are sequences of
\* tokens, paths are sequences of components, a pkglist is a set of lines.
\* A directory entry (pkglist or pkglist.new) names an inode; the published
\* tree may hold a hard link to the inode of an old pkglist.
ArchNames == <<"x86_64", "aarch64", "ppc64le", "s390x">>
Arches == {ArchNames[i] : i \in 1..NArches}
Tops == {"src"} \cup Arches
Names == { <<"foo", ".x86_64", ".rpm">>,
           <<"foo", "-debuginfo", ".x86_64", ".rpm">>,
           <<"foo", "-debugsource", ".x86_64", ".rpm">>,
           <<"bar", ".src", ".rpm">>,
           <<"foo", "-debuginfo", ".rpm", ".sig">> }
SubDirs == {<<>>, <<"f">>}
Lists == {<<"src", "main">>} \cup (Arches \X {"main", "debug"})

\* str.endswith
EndsWith(str, suffix) ==
    /\ Len(str) >= Len(suffix)
    /\ SubSeq(str, Len(str) - Len(suffix) + 1, Len(str)) = suffix

\* "x in str" for a token x
Contains(str, tok) == \E i \in 1..Len(str) : str[i] = tok

\* os.path.relpath(path, start)
RelPath(path, start) ==
    LET m == IF Len(path) < Len(start) THEN Len(path) ELSE Len(start)
        k == CHOOSE n \in 0..m :
                /\ SubSeq(path, 1, n) = SubSeq(start, 1, n)
                /\ (n = m \/ path[n + 1] # start[n + 1])
        r == [i \in 1..(Len(start) - k) |-> ".."] \o SubSeq(path, k + 1, Len(path))
    IN IF r = <<>> THEN <<".">> ELSE r

\* the line print(os.path.join(os.path.relpath(dirpath, base), fn)) writes
Line(dirpath, base, fn) == [dir |-> RelPath(dirpath, base), name |-> fn]

\* the directory os.walk finds a file in
DirPath(f) == <<f.top, "Packages">> \o f.dir

\* fn.endswith(".src.rpm")
IsSrcRpm(fn) == EndsWith(fn, <<".src", ".rpm">>)

\* fn.endswith(".rpm")
IsRpm(fn) == EndsWith(fn, <<".rpm">>)

\* variant: only debuginfo packages count as debug packages
IsDebugName_infoOnly(fn) == Contains(fn, "-debuginfo")

\* "-debuginfo" in fn or "-debugsource" in fn
IsDebugName(fn) == Contains(fn, "-debuginfo") \/ Contains(fn, "-debugsource")

\* the lines the walk writes into the new file of a list
ListLines(L) ==
    LET found == {f \in pFiles : f.top = L[1]} IN
    CASE L = <<"src", "main">> ->
            {Line(DirPath(f), <<"src">>, f.name) : f \in {g \in found : IsSrcRpm(g.name)}}
      [] L[1] # "src" /\ L[2] = "main" ->
            {Line(DirPath(f), <<L[1]>>, f.name) :
                f \in {g \in found : IsRpm(g.name) /\ ~IsDebugName(g.name)}}
      [] OTHER ->
            {Line(DirPath(f), <<L[1], "debug">>, f.name) :
                f \in {g \in found : IsRpm(g.name) /\ IsDebugName(g.name)}}

Missing == [lines |-> {}, state |-> "missing"]
OpenFile == [lines |-> {}, state |-> "open"]
OldList == [lines |-> {[dir |-> <<"Packages">>, name |-> <<"old", ".rpm">>]},
            state |-> "complete"]
NewList(L) == [lines |-> ListLines(L), state |-> "complete"]

\* variant: the list is opened for writing under its own name
WritePath_inplace(L) == "pkglist"

\* open(f"{pkglist}.new", "wt"): the name the new list is written under
WritePath(L) == "pkglist.new"

PkgRaise ==
    /\ pResult' = "TagFailure"
    /\ ppc' = "done"

PkgFrame == UNCHANGED <<pFiles, pSrcDir, seqVars, protoVars, condorVars, mirrorVars,
                        configVars, toolVars>>

\* open(..., "wt") creates the file or truncates the inode the name refers to
PkgOpen(L, next) ==
    /\ \E ok \in BOOLEAN :
          IF ok
          THEN LET n == <<L, WritePath(L)>> IN
               /\ IF pName[n] = "none"
                  THEN /\ pName' = [pName EXCEPT ![n] = "new"]
                       /\ pData' = [pData EXCEPT ![<<L, "new">>] = OpenFile]
                  ELSE /\ pData' = [pData EXCEPT ![<<L, pName[n]>>] = OpenFile]
                       /\ UNCHANGED pName
               /\ ppc' = next
               /\ UNCHANGED pResult
          ELSE PkgRaise /\ UNCHANGED <<pName, pData>>
    /\ UNCHANGED pArch
    /\ PkgFrame

\* the walk prints the lines into the open files; the with block closes them
PkgWrite(Ls, next) ==
    /\ \E ok \in BOOLEAN :
          IF ok
          THEN /\ pData' = [i \in DOMAIN pData |->
                              IF i[1] \in Ls /\ pName[<<i[1], WritePath(i[1])>>] = i[2]
                              THEN NewList(i[1]) ELSE pData[i]]
               /\ ppc' = next
               /\ UNCHANGED pResult
          ELSE PkgRaise /\ UNCHANGED pData
    /\ UNCHANGED <<pName, pArch>>
    /\ PkgFrame

\* after the last statement for an architecture: next architecture or return
PkgNextArch ==
    IF pArch < NArches
    THEN pArch' = pArch + 1 /\ ppc' = "mkdir" /\ UNCHANGED pResult
    ELSE pResult' = "ok" /\ ppc' = "done" /\ UNCHANGED pArch

\* shutil.move(f"{pkglist}.new", pkglist): a rename within one directory
PkgMove(L, last) ==
    /\ \E ok \in {b \in BOOLEAN : b => pName[<<L, "pkglist.new">>] # "none"} :
          IF ok
          THEN /\ pName' = [pName EXCEPT ![<<L, "pkglist">>] = pName[<<L, "pkglist.new">>],
                                         ![<<L, "pkglist.new">>] = "none"]
               /\ IF last THEN PkgNextArch
                  ELSE ppc' = "debug_move" /\ UNCHANGED <<pArch, pResult>>
          ELSE PkgRaise /\ UNCHANGED <<pName, pArch>>
    /\ UNCHANGED pData
    /\ PkgFrame

\* if not src_dir.exists(): raise TagFailure
pkg_check ==
    /\ ppc = "check"
    /\ IF pSrcDir THEN ppc' = "src_open" /\ UNCHANGED pResult ELSE PkgRaise
    /\ UNCHANGED <<pName, pData, pArch>>
    /\ PkgFrame

pkg_src_open == ppc = "src_open" /\ PkgOpen(<<"src", "main">>, "src_write")

pkg_src_write == ppc = "src_write" /\ PkgWrite({<<"src", "main">>}, "src_move")

pkg_src_move ==
    /\ ppc = "src_move"
    /\ \E ok \in {b \in BOOLEAN : b => pName[<<<<"src", "main">>, "pkglist.new">>] # "none"} :
          IF ok
          THEN /\ pName' = [pName EXCEPT
                    ![<<<<"src", "main">>, "pkglist">>] = pName[<<<<"src", "main">>, "pkglist.new">>],
                    ![<<<<"src", "main">>, "pkglist.new">>] = "none"]
               /\ pArch' = 1
               /\ ppc' = "mkdir"
               /\ UNCHANGED pResult
          ELSE PkgRaise /\ UNCHANGED <<pName, pArch>>
    /\ UNCHANGED pData
    /\ PkgFrame

\* arch_debug_dir.mkdir(parents=True, exist_ok=True)
pkg_arch_mkdir ==
    /\ ppc = "mkdir"
    /\ \E ok \in BOOLEAN :
          IF ok THEN ppc' = "arch_open" /\ UNCHANGED pResult ELSE PkgRaise
    /\ UNCHANGED <<pName, pData, pArch>>
    /\ PkgFrame

pkg_arch_open == ppc = "arch_open" /\ PkgOpen(<<ArchNames[pArch], "main">>, "debug_open")

pkg_debug_open == ppc = "debug_open" /\ PkgOpen(<<ArchNames[pArch], "debug">>, "arch_write")

pkg_arch_write ==
    /\ ppc = "arch_write"
    /\ PkgWrite({<<ArchNames[pArch], "main">>, <<ArchNames[pArch], "debug">>}, "arch_move")

pkg_arch_move == ppc = "arch_move" /\ PkgMove(<<ArchNames[pArch], "main">>, FALSE)

pkg_debug_move == ppc = "debug_move" /\ PkgMove(<<ArchNames[pArch], "debug">>, TRUE)

\* the files update_pkglist_files finds: up to MaxFiles files, all in the same
\* directory below Packages
FileSets(sub) ==
    LET C == {[top |-> t, dir |-> sub, name |-> n] : t \in Tops, n \in Names}
        Up[n \in 0..MaxFiles] ==
            IF n = 0 THEN {{}} ELSE Up[n - 1] \cup {S \cup {c} : S \in Up[n - 1], c \in C}
    IN Up[MaxFiles]

InitPkglist ==
    /\ SeqIdle
    /\ ProtoIdle
    /\ CondorIdle
    /\ MirrorIdle
    /\ ConfigIdle
    /\ ToolIdle
    /\ \E sub \in SubDirs : pFiles \in FileSets(sub)
    /\ pSrcDir \in {b \in BOOLEAN : (\E f \in pFiles : f.top = "src") => b}
    /\ \E old \in BOOLEAN :
          /\ pName = [n \in Lists \X {"pkglist", "pkglist.new"} |->
                         IF old /\ n[2] = "pkglist" THEN "old" ELSE "none"]
          /\ pData = [i \in Lists \X {"old", "new"} |->
                         IF old /\ i[2] = "old" THEN OldList ELSE Missing]
    /\ ppc = "check"
    /\ pArch = 0
    /\ pResult = "none"

NextPkglist ==
    \/ pkg_check
    \/ pkg_src_open
    \/ pkg_src_write
    \/ pkg_src_move
    \/ pkg_arch_mkdir
    \/ pkg_arch_open
    \/ pkg_debug_open
    \/ pkg_arch_write
    \/ pkg_arch_move
    \/ pkg_debug_move

SpecPkglist == InitPkglist /\ [][NextPkglist]_vars

\* ------------------------------------------------------------ SpecMirror
\* update_mirrors_for_tag for one tag: every candidate host is probed for
\* every architecture of the tag, the list is written to the mirror working
\* path and rotated by update_release_repos.  The three mirror paths of the
\* tag are the entries of working, published and previous for the tag; a
\* mirror list is a regular file.  Time is counted in whole hours.

\* mirror_hostnames = get_baseline_urls() + options.mirror_hosts: host 1 is
\* the baseline host
Hosts == 1..NHosts

\* what a candidate answers to requests.get: status 0 stands for no response
\* (connection refused, timeout); header is the Last-Modified header
\* ("none": missing, "bad": not in the expected format, "date": a date);
\* age is the current time minus the date of the header
Responses ==
    {[status |-> 0, header |-> "none", age |-> 0],
     [status |-> HTTP_NOT_FOUND, header |-> "date", age |-> MAX_AGE_HOURS - MaxAgeDelta],
     [status |-> HTTP_OK, header |-> "none", age |-> 0],
     [status |-> HTTP_OK, header |-> "bad", age |-> 0]}
    \cup {[status |-> HTTP_OK, header |-> "date", age |-> a] :
             a \in (MAX_AGE_HOURS - MaxAgeDelta)..(MAX_AGE_HOURS + MaxAgeDelta)}

\* datetime.now() - lastmodtime: now() is the naive local time of the host,
\* lastmodtime the naive GMT time of the header, so the difference is the
\* age plus the host's offset from UTC
CodeAge(resp, tz) == resp.age + tz

\* test_single_mirror: "good", "notgood", or "raise" when an exception
\* leaves the function (requests.get or datetime.strptime raises)
test_single_mirror(resp, tz) ==
    IF resp.status = 0 THEN "raise"
    ELSE IF resp.status # HTTP_OK THEN "notgood"
    ELSE IF resp.header = "none" THEN "notgood"
    ELSE IF resp.header = "bad" THEN "raise"
    ELSE IF CodeAge(resp, tz) > MAX_AGE_HOURS THEN "notgood"
    ELSE "good"

\* a mirror list file; its content is numbered n
FileTree(n) == [snap |-> n, stage |-> "file", mixed |-> FALSE]

RECURSIVE Pow2(_)
Pow2(n) == IF n = 0 THEN 1 ELSE 2 * Pow2(n - 1)

RECURSIVE Mask(_)
Mask(good) == IF good = <<>> THEN 0 ELSE Pow2(Head(good) - 1) + Mask(Tail(good))

\* the number of the content '\n'.join(good_mirrors), the entries of
\* good_mirrors being the base URLs of the hosts in good for architecture arch
ListId(arch, good) == arch * Pow2(NHosts) + Mask(good)

\* the lines of a mirror list, each the base URL <<arch, host>>
FileLines(tree) ==
    IF ~IsFile(tree) THEN {}
    ELSE {<<tree.snap \div Pow2(NHosts), h>> :
             h \in {g \in Hosts : (tree.snap \div Pow2(g - 1)) % 2 = 1}}

\* what a step of update_mirrors_for_tag leaves alone outside the mirror
\* variables and the mirror paths
MirrorFrame ==
    UNCHANGED <<mNArch, mTz, latest, lock_dir, lockHolder, lockFile, run, idx,
                lock_fh, latest_dir, pending, steps, result,
                successful, failed, attempted, exitcode, listing, markers, taglen,
                pubAtStart, prevAtStart, pubAtRot, workAtRot, prevAtRot,
                rotMoved, rotFinalFailed, rotRollback, rotCalls, released,
                protoVars, condorVars, pkgVars, configVars, toolVars>>

\* if test_single_mirror(repodata_url): good_mirrors.append(mirror_base)
m_probe ==
    /\ mpc = "probe"
    /\ \E resp \in Responses :
          LET out == test_single_mirror(resp, mTz) IN
          /\ mLast' = [status |-> resp.status, header |-> resp.header,
                       age |-> resp.age, out |-> out]
          /\ mProbed' = [mProbed EXCEPT ![<<mArch, mHost>>] = out]
          /\ IF out = "raise"
             THEN /\ mResult' = Raise(IF resp.status = 0 THEN "RequestException"
                                      ELSE "ValueError")
                  /\ mpc' = "done"
                  /\ UNCHANGED <<mGood, mHost>>
             ELSE /\ mGood' = IF out = "good" THEN Append(mGood, mHost) ELSE mGood
                  /\ IF mHost < NHosts
                     THEN mHost' = mHost + 1 /\ UNCHANGED mpc
                     ELSE mpc' = "check" /\ UNCHANGED mHost
                  /\ UNCHANGED mResult
    /\ UNCHANGED <<mArch, fsVars, pc>>
    /\ MirrorFrame

\* if not good_mirrors: return False, ...; otherwise the next architecture
\* starts with good_mirrors = [], and after the last one the loop ends
m_check ==
    /\ mpc = "check"
    /\ IF mGood = <<>>
       THEN /\ mResult' = Return(FALSE, "No good mirrors found")
            /\ mpc' = "done"
            /\ UNCHANGED <<mArch, mHost, mGood>>
       ELSE IF mArch < mNArch
       THEN /\ mArch' = mArch + 1
            /\ mHost' = 1
            /\ mGood' = <<>>
            /\ mpc' = "probe"
            /\ UNCHANGED mResult
       ELSE /\ mpc' = "write"
            /\ UNCHANGED <<mArch, mHost, mGood, mResult>>
    /\ UNCHANGED <<mProbed, mLast, fsVars, pc>>
    /\ MirrorFrame

\* working_path.parent.mkdir(...); open(working_path, 'w'); write; then
\* update_release_repos is entered.  mkdir or open may raise OSError.
m_write ==
    /\ mpc = "write"
    /\ \E ok \in BOOLEAN :
          IF ok
          THEN /\ working' = [working EXCEPT ![tag] = FileTree(ListId(mArch, mGood))]
               /\ pc' = "rot_check"
               /\ mpc' = "rotate"
               /\ UNCHANGED mResult
          ELSE /\ mResult' = Raise("OSError")
               /\ mpc' = "done"
               /\ UNCHANGED <<working, pc>>
    /\ UNCHANGED <<mArch, mHost, mGood, mProbed, mLast, published, previous>>
    /\ MirrorFrame

\* update_release_repos has ended: return True, "" or its exception goes on
m_return ==
    /\ mpc = "rotate"
    /\ pc = "rot_ret"
    /\ mResult' = IF pending = "none" THEN Return(TRUE, "") ELSE Raise(pending)
    /\ mpc' = "done"
    /\ UNCHANGED <<mArch, mHost, mGood, mProbed, mLast, fsVars, pc>>
    /\ MirrorFrame

\* update_mirrors_for_tag is called again for the same tag (the next run of
\* the program)
m_again ==
    /\ mpc = "done"
    /\ run < MaxMirrorRuns
    /\ run' = run + 1
    /\ mArch' = 1
    /\ mHost' = 1
    /\ mGood' = <<>>
    /\ mProbed' = [k \in (1..NArches) \X (1..NHosts) |-> "unprobed"]
    /\ mLast' = NoProbe
    /\ mpc' = "probe"
    /\ mResult' = NoResult
    /\ pc' = "idle"
    /\ pending' = "none"
    /\ steps' = <<>>
    /\ UNCHANGED <<mNArch, mTz, fsVars, latest, lock_dir, lockHolder, lockFile, idx,
                   lock_fh, latest_dir, result,
                   successful, failed, attempted, exitcode, listing, markers, taglen,
                   pubAtStart, prevAtStart, pubAtRot, workAtRot, prevAtRot,
                   rotMoved, rotFinalFailed, rotRollback, rotCalls, released,
                   protoVars, condorVars, pkgVars, configVars, toolVars>>

\* the mirror lists an earlier run may have left at the three paths
OldLists == {Absent, FileTree(0)}

InitMirror ==
    /\ \E pub \in OldLists, work \in OldLists, prev \in OldLists :
          /\ published = [t \in Tags |-> IF t = 1 THEN pub ELSE Absent]
          /\ working = [t \in Tags |-> IF t = 1 THEN work ELSE Absent]
          /\ previous = [t \in Tags |-> IF t = 1 THEN prev ELSE Absent]
          /\ pubAtRot = published
          /\ workAtRot = working
          /\ prevAtRot = previous
          /\ pubAtStart = pub
          /\ prevAtStart = prev
    /\ latest = 1
    /\ lock_dir = FALSE
    /\ lockHolder = "free"
    /\ lockFile = FALSE
    /\ pc = "idle"
    /\ run = 1
    /\ idx = 1
    /\ successful = <<>>
    /\ failed = <<>>
    /\ attempted = <<>>
    /\ exitcode = -1
    /\ listing = "none"
    /\ markers = 0
    /\ taglen = 0
    /\ rotCalls = 1
    /\ TagIdle
    /\ RotIdle
    /\ ProtoIdle
    /\ CondorIdle
    /\ PkgIdle
    /\ ConfigIdle
    /\ ToolIdle
    /\ mNArch \in 1..NArches
    /\ mTz \in (0 - MaxTz)..MaxTz
    /\ mArch = 1
    /\ mHost = 1
    /\ mGood = <<>>
    /\ mProbed = [k \in (1..NArches) \X (1..NHosts) |-> "unprobed"]
    /\ mLast = NoProbe
    /\ mpc = "probe"
    /\ mResult = NoResult

NextMirror ==
    \/ m_probe
    \/ m_check
    \/ m_write
    \/ rot_check
    \/ rot_clear
    \/ rot_mkprev
    \/ rot_toprev
    \/ rot_mkpub
    \/ rot_final
    \/ rot_rollback
    \/ m_return
    \/ m_again

SpecMirror == InitMirror /\ [][NextMirror]_vars

\* ------------------------------------------------------------ SpecConfig
\* get_taglist on one [tag ...] section.  An option value is a sequence of
\* characters; ConfigParser hands values over with surrounding whitespace
\* removed.

REQUIRED_TAG_OPTIONS == <<"dest", "arches", "arch_rpms_subdir", "source_rpms_subdir">>

\* the options of a section that get_taglist reads with section[...]
OptionNames == {"dest", "arches", "arch_rpms_subdir", "source_rpms_subdir",
                "arch_rpms_mirror_base"}

\* the sequences over alphabet A of length at most n
RECURSIVE SeqsUpTo(_, _)
SeqsUpTo(A, n) ==
    IF n = 0 THEN {<<>>}
    ELSE LET shorter == SeqsUpTo(A, n - 1)
         IN shorter \cup {Append(q, c) : q \in shorter, c \in A}

\* values of a path option, and of the arches option
PathValues == SeqsUpTo({"/", "d"}, MaxOptLen)
ArchesValues == {<<>>, <<"x">>, <<"x", " ", "y">>}

\* str.strip(c) for a single character c
RECURSIVE LStrip(_, _)
LStrip(str, c) == IF str # <<>> /\ Head(str) = c THEN LStrip(Tail(str), c) ELSE str

RECURSIVE RStrip(_, _)
RStrip(str, c) ==
    IF str # <<>> /\ str[Len(str)] = c THEN RStrip(SubSeq(str, 1, Len(str) - 1), c)
    ELSE str

Strip(str, c) == RStrip(LStrip(str, c), c)

\* str.split(): the words between runs of blanks
RECURSIVE Split(_, _)
Split(str, word) ==
    IF str = <<>> THEN (IF word = <<>> THEN <<>> ELSE <<word>>)
    ELSE IF Head(str) = " "
         THEN (IF word = <<>> THEN <<>> ELSE <<word>>) \o Split(Tail(str), <<>>)
         ELSE Split(Tail(str), Append(word, Head(str)))

\* if not section.get(opt): the option is missing or empty
NotSet(sec, opt) == ~sec[opt].present \/ sec[opt].val = <<>>

\* the first required option that is missing or empty, 0 if there is none
FirstNotSet(sec) ==
    IF \E i \in 1..Len(REQUIRED_TAG_OPTIONS) : NotSet(sec, REQUIRED_TAG_OPTIONS[i])
    THEN CHOOSE i \in 1..Len(REQUIRED_TAG_OPTIONS) :
            /\ NotSet(sec, REQUIRED_TAG_OPTIONS[i])
            /\ \A j \in 1..(i - 1) : ~NotSet(sec, REQUIRED_TAG_OPTIONS[j])
    ELSE 0

\* the body of the loop of get_taglist for one section: MissingOptionError
\* (a ConfigError), KeyError from section["arch_rpms_mirror_base"], or the Tag
TagOf(sec) ==
    IF FirstNotSet(sec) # 0
    THEN [NoTag EXCEPT !.kind = "ConfigError", !.opt = REQUIRED_TAG_OPTIONS[FirstNotSet(sec)]]
    ELSE IF ~sec["arch_rpms_mirror_base"].present
    THEN [NoTag EXCEPT !.kind = "KeyError", !.opt = "arch_rpms_mirror_base"]
    ELSE [kind |-> "tag", opt |-> "",
          dest |-> Strip(sec["dest"].val, "/"),
          arches |-> Split(sec["arches"].val, <<>>),
          arch_rpms_subdir |-> Strip(sec["arch_rpms_subdir"].val, "/"),
          source_rpms_subdir |-> Strip(sec["source_rpms_subdir"].val, "/")]

get_taglist ==
    /\ gpc = "parse"
    /\ gResult' = TagOf(gSection)
    /\ gpc' = "done"
    /\ UNCHANGED <<gSection, seqVars, protoVars, condorVars, pkgVars, mirrorVars, toolVars>>

InitConfig ==
    /\ SeqIdle
    /\ ProtoIdle
    /\ CondorIdle
    /\ PkgIdle
    /\ MirrorIdle
    /\ ToolIdle
    /\ \E dest \in PathValues, arch_sub \in PathValues, src_sub \in PathValues,
          arches \in ArchesValues, unset \in SUBSET OptionNames :
          /\ Cardinality(unset) <= 1
          /\ gSection =
                [o \in OptionNames |->
                    IF o \in unset THEN Opt(FALSE, <<>>)
                    ELSE Opt(TRUE, CASE o = "dest" -> dest
                                     [] o = "arches" -> arches
                                     [] o = "arch_rpms_subdir" -> arch_sub
                                     [] o = "source_rpms_subdir" -> src_sub
                                     [] OTHER -> <<"d">>)]
    /\ gpc = "parse"
    /\ gResult = NoTag

NextConfig == get_taglist

SpecConfig == InitConfig /\ [][NextConfig]_vars

\* -------------------------------------------------------- SpecCreaterepo
\* run_createrepo on a working tree, invocation by invocation.  A directory
\* is a path of components below the working root.

\* the architecture lists of a tag: up to NArches distinct names, in order
ArchLists ==
    LET N == {ArchNames[i] : i \in 1..NArchNames} IN
    {a \in SeqsUpTo(N, NArches) : a # <<>> /\ \A i, j \in DOMAIN a : a[i] = a[j] => i = j}

\* arch_debug_dir.mkdir(parents=True, exist_ok=True) for every architecture
\* of update_pkglist_files: the debug directories that exist afterwards
DebugDirsAfterPkglist(arches, before) == before \cup {arches[i] : i \in DOMAIN arches}

\* ["createrepo_c", str(dir), f"--pkglist={dir}/pkglist"] and how it exited
Createrepo(dir, ok) == [dir |-> dir, pkglist |-> dir \o <<"pkglist">>, ok |-> ok]

\* variant: the exit status of createrepo_c is not looked at
CreaterepoFailed_ignored(ok) == FALSE

\* "if ok: ... else: raise TagFailure"
CreaterepoFailed(ok) == ~ok

RepoFrame == UNCHANGED <<crArches, crDebug, crRan, seqVars, protoVars, condorVars,
                         pkgVars, mirrorVars, configVars, argVars, linkVars,
                         legacyVars>>

\* the loop head and the end of "for arch in arches"
CreaterepoNextArch ==
    IF crArch < Len(crArches)
    THEN crArch' = crArch + 1 /\ crpc' = "arch" /\ UNCHANGED crResult
    ELSE crResult' = "ok" /\ crpc' = "done" /\ UNCHANGED crArch

\* run_with_log(createrepo_c on dir); a failure raises TagFailure
CreaterepoRun(dir, Then) ==
    \E ok \in BOOLEAN :
       /\ crLog' = Append(crLog, Createrepo(dir, ok))
       /\ IF CreaterepoFailed(ok)
          THEN crResult' = "TagFailure" /\ crpc' = "done" /\ UNCHANGED crArch
          ELSE Then

\* "SRPMS": createrepo_c on src
createrepo_src ==
    /\ crpc = "src"
    /\ CreaterepoRun(<<"src">>, /\ crArch' = 0
                                /\ crpc' = "next"
                                /\ UNCHANGED crResult)
    /\ RepoFrame

\* for arch in arches; also reached by "continue"
createrepo_next ==
    /\ crpc = "next"
    /\ CreaterepoNextArch
    /\ UNCHANGED crLog
    /\ RepoFrame

\* createrepo_c on the architecture directory
createrepo_arch ==
    /\ crpc = "arch"
    /\ CreaterepoRun(<<crArches[crArch]>>, /\ crpc' = "debug"
                                           /\ UNCHANGED <<crArch, crResult>>)
    /\ RepoFrame

\* if not arch_debug_dir.exists(): continue; createrepo_c on <arch>/debug
createrepo_debug ==
    /\ crpc = "debug"
    /\ IF crArches[crArch] \notin crDebug
       THEN crpc' = "next" /\ UNCHANGED <<crArch, crLog, crResult>>
       ELSE CreaterepoRun(<<crArches[crArch], "debug">>, /\ crpc' = "next"
                                                         /\ UNCHANGED <<crArch, crResult>>)
    /\ RepoFrame

\* run_createrepo is called on a tree that update_pkglist_files has
\* processed for the same architectures (crRan), or directly on a tree in
\* which any of the debug directories may be missing
InitCreaterepo ==
    /\ SeqIdle
    /\ ProtoIdle
    /\ CondorIdle
    /\ PkgIdle
    /\ MirrorIdle
    /\ ConfigIdle
    /\ ArgIdle
    /\ LinkIdle
    /\ LegacyIdle
    /\ crArches \in ArchLists
    /\ crRan \in BOOLEAN
    /\ \E before \in SUBSET {crArches[i] : i \in DOMAIN crArches} :
          crDebug = IF crRan THEN DebugDirsAfterPkglist(crArches, before) ELSE before
    /\ crArch = 0
    /\ crpc = "src"
    /\ crLog = <<>>
    /\ crResult = "none"

NextCreaterepo ==
    \/ createrepo_src
    \/ createrepo_next
    \/ createrepo_arch
    \/ createrepo_debug

SpecCreaterepo == InitCreaterepo /\ [][NextCreaterepo]_vars

\* --------------------------------------------------------- SpecRsyncArgs
\* rsync_with_link as a function of its parameters: the argument list it
\* hands to rsync.  link_path is None, the empty string or a path; whether
\* the path exists on disk is an input.  An argument is a tuple: <<text>>,
\* or <<"--link-dest", path>> for --link-dest=<path>.
Sources == {"rsync://koji/tag/latest/", "rsync://condor/repo/*.rpm"}
Dests == {"working/tag", "working/tag/x86_64"}
LinkPaths == {"None", "", "dest/tag"}

\* os.path.exists(link_path)
LinkExists(link_path, on_disk) == link_path # "" /\ on_disk

\* variant: --dirs whenever the transfer is not recursive
NeedsDirs_always(recursive, delete) == ~recursive

\* "elif delete": rsync --delete needs --recursive or --dirs
NeedsDirs(recursive, delete) == ~recursive /\ delete

\* the args list of rsync_with_link
rsync_with_link(source_url, dest_path, link_path, on_disk, recursive, delete) ==
    << <<"--times">>, <<"--stats">> >>
       \o (IF delete THEN << <<"--delete">> >> ELSE <<>>)
       \o (IF recursive THEN << <<"--recursive">> >>
           ELSE IF NeedsDirs(recursive, delete) THEN << <<"--dirs">> >> ELSE <<>>)
       \o (IF link_path \notin {"None", ""} /\ LinkExists(link_path, on_disk)
           THEN << <<"--link-dest", link_path>> >> ELSE <<>>)
       \o << <<source_url>>, <<dest_path>> >>

\* the call
rsync_with_link_call ==
    /\ rapc = "call"
    /\ raArgs' = rsync_with_link(raSource, raDest, raLink, raLinkExists,
                                 raRecursive, raDelete)
    /\ rapc' = "done"
    /\ UNCHANGED <<raSource, raDest, raLink, raLinkExists, raRecursive, raDelete,
                   seqVars, protoVars, condorVars, pkgVars, mirrorVars, configVars,
                   repoVars, linkVars, legacyVars>>

InitRsyncArgs ==
    /\ SeqIdle
    /\ ProtoIdle
    /\ CondorIdle
    /\ PkgIdle
    /\ MirrorIdle
    /\ ConfigIdle
    /\ RepoIdle
    /\ LinkIdle
    /\ LegacyIdle
    /\ raSource \in Sources
    /\ raDest \in Dests
    /\ raLink \in LinkPaths
    /\ raLinkExists \in BOOLEAN
    /\ raRecursive \in BOOLEAN
    /\ raDelete \in BOOLEAN
    /\ rapc = "call"
    /\ raArgs = <<>>

NextRsyncArgs == rsync_with_link_call

SpecRsyncArgs == InitRsyncArgs /\ [][NextRsyncArgs]_vars

\* ----------------------------------------------------------- SpecSymlink
\* create_compat_symlink on a working tree, system call by system call.
\* slDirs are the directories that exist in the working root beside
\* "source"; slSource is what is at <working>/source, slSRPMS what is at
\* <working>/source/SRPMS.  An OS call may also fail for a reason outside
\* the tree (permissions, a full disk): slFault records that it did.
Siblings == {"src", "old"}

\* the target os.symlink is given: "../src"
CompatTarget == <<"..", "src">>

\* Path.exists(): follows symbolic links; the links of the model point to
\* "../<name>" from the source directory
PathExists(entry) ==
    CASE entry.kind = "absent" -> FALSE
      [] entry.kind = "link" -> entry.target[2] \in slDirs
      [] OTHER -> TRUE

\* shutil.rmtree(path) raises OSError on a symbolic link and
\* NotADirectoryError on a regular file
RmtreeRefuses(entry) == entry.kind \in {"link", "file"}

\* os.symlink raises FileExistsError when the name exists, a dangling link
\* included
SymlinkRefuses(entry) == entry.kind # "absent"

LinkFrame == UNCHANGED <<slDirs, slBefore, seqVars, protoVars, condorVars, pkgVars,
                         mirrorVars, configVars, repoVars, argVars, legacyVars>>

\* except OSError as err: raise TagFailure
LinkRaise ==
    /\ slResult' = "TagFailure"
    /\ slpc' = "done"

\* (working_path / "source").mkdir(parents=True, exist_ok=True)
symlink_mkdir ==
    /\ slpc = "mkdir"
    /\ \E ok \in {b \in BOOLEAN : b => slSource # "file"} :
          IF ok
          THEN /\ slSource' = "dir"
               /\ slpc' = "exists"
               /\ UNCHANGED <<slFault, slResult>>
          ELSE /\ slFault' = (slFault \/ slSource # "file")
               /\ LinkRaise
               /\ UNCHANGED slSource
    /\ UNCHANGED slSRPMS
    /\ LinkFrame

\* if (working_path / "source/SRPMS").exists()
symlink_exists ==
    /\ slpc = "exists"
    /\ slpc' = IF PathExists(slSRPMS) THEN "rmtree" ELSE "symlink"
    /\ UNCHANGED <<slSource, slSRPMS, slFault, slResult>>
    /\ LinkFrame

\* shutil.rmtree(working_path / "source/SRPMS")
symlink_rmtree ==
    /\ slpc = "rmtree"
    /\ \E ok \in {b \in BOOLEAN : b => ~RmtreeRefuses(slSRPMS)} :
          IF ok
          THEN /\ slSRPMS' = NoEntry
               /\ slpc' = "symlink"
               /\ UNCHANGED <<slFault, slResult>>
          ELSE /\ slFault' = (slFault \/ ~RmtreeRefuses(slSRPMS))
               /\ LinkRaise
               /\ UNCHANGED slSRPMS
    /\ UNCHANGED slSource
    /\ LinkFrame

\* os.symlink("../src", working_path / "source/SRPMS")
symlink_create ==
    /\ slpc = "symlink"
    /\ \E ok \in {b \in BOOLEAN : b => ~SymlinkRefuses(slSRPMS)} :
          IF ok
          THEN /\ slSRPMS' = Entry("link", CompatTarget)
               /\ slResult' = "ok"
               /\ slpc' = "done"
               /\ UNCHANGED slFault
          ELSE /\ slFault' = (slFault \/ ~SymlinkRefuses(slSRPMS))
               /\ LinkRaise
               /\ UNCHANGED slSRPMS
    /\ UNCHANGED slSource
    /\ LinkFrame

\* what can be at source/SRPMS when the call starts
OldEntries ==
    {NoEntry, Entry("dir", <<>>), Entry("file", <<>>)}
       \cup {Entry("link", <<"..", d>>) : d \in Siblings}

InitSymlink ==
    /\ SeqIdle
    /\ ProtoIdle
    /\ CondorIdle
    /\ PkgIdle
    /\ MirrorIdle
    /\ ConfigIdle
    /\ RepoIdle
    /\ ArgIdle
    /\ LegacyIdle
    /\ slDirs \in SUBSET Siblings
    /\ slSource \in {"absent", "file", "dir"}
    /\ slSRPMS \in {e \in OldEntries : slSource # "dir" => e = NoEntry}
    /\ slBefore = slSRPMS
    /\ slFault = FALSE
    /\ slpc = "mkdir"
    /\ slResult = "none"

NextSymlink ==
    \/ symlink_mkdir
    \/ symlink_exists
    \/ symlink_rmtree
    \/ symlink_create

SpecSymlink == InitSymlink /\ [][NextSymlink]_vars

\* ------------------------------------------------------------ SpecLegacy
\* The legacy bin/update_mirror.py, statement by statement.  The mirror
\* directory /usr/local/mirror holds the trees .osg.prev and .osg.new
\* (absent, partial: under construction or left by a run that died, or
\* complete) and the symbolic link osg (absent, or the name it points to).
\* The script may die at any statement on an uncaught exception; the next
\* run starts with what it left on disk.

\* mirrorhosts: the module-level list of mirror base urls
MirrorHosts == [i \in 1..NLegacyHosts |-> i]

\* the host of the repo itself: 'http://' + hostname
OwnHost == 0

\* tag_archs: archs, with aarch64 appended for a "23" series (here tag 2)
TagArchs(t) == IF t = 2 THEN 2 ELSE 1

\* how the probe of a host ends: the list is appended to, nothing happens
\* (non-200, too old, HTTPError, another exception), or URLError
ProbeOutcomes == {"good", "bad", "HTTPError", "URLError"}

\* list.remove(x): the first occurrence of x is taken out
Remove(list, x) ==
    LET k == CHOOSE i \in DOMAIN list : list[i] = x /\ \A j \in 1..(i - 1) : list[j] # x
    IN SubSeq(list, 1, k - 1) \o SubSeq(list, k + 1, Len(list))

\* what the name osg leads to: "absent" when the link is dangling
LiveTree == CASE lgLive = ".osg.prev" -> lgPrev
              [] lgLive = ".osg.new" -> lgNew
              [] OTHER -> "absent"

LegacyFrame == UNCHANGED <<seqVars, protoVars, condorVars, pkgVars, mirrorVars, configVars,
                           repoVars, argVars, linkVars>>

\* the script starts: mirrorhosts is the full list again
legacy_start ==
    /\ lgpc \in {"idle", "done", "died"}
    /\ lgRun < MaxLegacyRuns
    /\ lgRun' = lgRun + 1
    /\ lgpc' = "rm_prev"
    /\ lgHosts' = MirrorHosts
    /\ lgTag' = 0
    /\ lgArch' = 0
    /\ lgIter' = 0
    /\ lgList' = <<>>
    /\ lgProbed' = <<>>
    /\ lgAtStart' = <<>>
    /\ UNCHANGED <<lgPrev, lgNew, lgLive>>
    /\ LegacyFrame

\* an uncaught exception ends the script
legacy_die ==
    /\ lgpc \notin {"idle", "done", "died"}
    /\ lgpc' = "died"
    /\ UNCHANGED <<lgRun, lgPrev, lgNew, lgLive, lgTag, lgArch, lgHosts, lgIter, lgList,
                   lgProbed, lgAtStart>>
    /\ LegacyFrame

\* if os.path.exists(".osg.prev"): shutil.rmtree(".osg.prev")
legacy_rm_prev ==
    /\ lgpc = "rm_prev"
    /\ lgPrev' = "absent"
    /\ lgpc' = "mv_new"
    /\ UNCHANGED <<lgRun, lgNew, lgLive, lgTag, lgArch, lgHosts, lgIter, lgList,
                   lgProbed, lgAtStart>>
    /\ LegacyFrame

\* if os.path.exists(".osg.new"): os.rename(".osg.new", ".osg.prev")
legacy_mv_new ==
    /\ lgpc = "mv_new"
    /\ IF lgNew # "absent"
       THEN lgPrev' = lgNew /\ lgNew' = "absent"
       ELSE UNCHANGED <<lgPrev, lgNew>>
    /\ lgpc' = "unlink"
    /\ UNCHANGED <<lgRun, lgLive, lgTag, lgArch, lgHosts, lgIter, lgList,
                   lgProbed, lgAtStart>>
    /\ LegacyFrame

\* if os.path.lexists("osg"): os.unlink("osg")
legacy_unlink ==
    /\ lgpc = "unlink"
    /\ lgLive' = "absent"
    /\ lgpc' = "symlink_prev"
    /\ UNCHANGED <<lgRun, lgPrev, lgNew, lgTag, lgArch, lgHosts, lgIter, lgList,
                   lgProbed, lgAtStart>>
    /\ LegacyFrame

\* os.symlink(".osg.prev", "osg"); the loop over the tags begins
legacy_symlink_prev ==
    /\ lgpc = "symlink_prev"
    /\ lgLive' = ".osg.prev"
    /\ lgTag' = 1
    /\ lgpc' = "makedirs"
    /\ UNCHANGED <<lgRun, lgPrev, lgNew, lgArch, lgHosts, lgIter, lgList,
                   lgProbed, lgAtStart>>
    /\ LegacyFrame

\* os.makedirs(repopath) below .osg.new
legacy_makedirs ==
    /\ lgpc = "makedirs"
    /\ lgNew' = "partial"
    /\ lgArch' = 1
    /\ lgpc' = "test"
    /\ UNCHANGED <<lgRun, lgPrev, lgLive, lgTag, lgHosts, lgIter, lgList,
                   lgProbed, lgAtStart>>
    /\ LegacyFrame

\* list = test(mirrorhosts, tag, arch) is entered: list = [own url], and
\* "for host in hosts" starts to iterate over mirrorhosts itself
legacy_test ==
    /\ lgpc = "test"
    /\ lgList' = <<OwnHost>>
    /\ lgIter' = 0
    /\ lgProbed' = <<>>
    /\ lgAtStart' = lgHosts
    /\ lgpc' = "probe"
    /\ UNCHANGED <<lgRun, lgPrev, lgNew, lgLive, lgTag, lgArch, lgHosts>>
    /\ LegacyFrame

\* one round of "for host in hosts": the iterator hands out the element at
\* its index in the list as it is now, and the host is probed; on URLError
\* mirrorhosts.remove(host) shortens the list that is being iterated
legacy_probe ==
    /\ lgpc = "probe"
    /\ IF lgIter < Len(lgHosts)
       THEN LET host == lgHosts[lgIter + 1] IN
            /\ lgIter' = lgIter + 1
            /\ lgProbed' = Append(lgProbed, host)
            /\ \E out \in ProbeOutcomes :
                  /\ lgList' = IF out = "good" THEN Append(lgList, host) ELSE lgList
                  /\ lgHosts' = IF out = "URLError" THEN Remove(lgHosts, host) ELSE lgHosts
            /\ UNCHANGED lgpc
       ELSE /\ lgpc' = "write"
            /\ UNCHANGED <<lgIter, lgProbed, lgList, lgHosts>>
    /\ UNCHANGED <<lgRun, lgPrev, lgNew, lgLive, lgTag, lgArch, lgAtStart>>
    /\ LegacyFrame

\* the list file of the architecture is written and closed; next
\* architecture, next tag, or the end of the loops
legacy_write ==
    /\ lgpc = "write"
    /\ IF lgArch < TagArchs(lgTag)
       THEN lgArch' = lgArch + 1 /\ lgpc' = "test" /\ UNCHANGED <<lgTag, lgNew>>
       ELSE IF lgTag < NLegacyTags
            THEN lgTag' = lgTag + 1 /\ lgpc' = "makedirs" /\ UNCHANGED <<lgArch, lgNew>>
            ELSE lgNew' = "complete" /\ lgpc' = "upcoming" /\ UNCHANGED <<lgTag, lgArch>>
    /\ UNCHANGED <<lgRun, lgPrev, lgLive, lgHosts, lgIter, lgList, lgProbed, lgAtStart>>
    /\ LegacyFrame

\* os.symlink("3.5-upcoming", ".osg.new/upcoming")
legacy_upcoming ==
    /\ lgpc = "upcoming"
    /\ lgpc' = "unlink_live"
    /\ UNCHANGED <<lgRun, lgPrev, lgNew, lgLive, lgTag, lgArch, lgHosts, lgIter, lgList,
                   lgProbed, lgAtStart>>
    /\ LegacyFrame

\* "point mirror to new": os.unlink("osg")
legacy_unlink_live ==
    /\ lgpc = "unlink_live"
    /\ lgLive' = "absent"
    /\ lgpc' = "symlink_new"
    /\ UNCHANGED <<lgRun, lgPrev, lgNew, lgTag, lgArch, lgHosts, lgIter, lgList,
                   lgProbed, lgAtStart>>
    /\ LegacyFrame

\* os.symlink(".osg.new", "osg")
legacy_symlink_new ==
    /\ lgpc = "symlink_new"
    /\ lgLive' = ".osg.new"
    /\ lgpc' = "done"
    /\ UNCHANGED <<lgRun, lgPrev, lgNew, lgTag, lgArch, lgHosts, lgIter, lgList,
                   lgProbed, lgAtStart>>
    /\ LegacyFrame

\* the mirror directory is empty (a new installation), or holds what
\* completed runs have left: osg points to the complete .osg.new, and
\* .osg.prev is there from the second run on
InitLegacy ==
    /\ SeqIdle
    /\ ProtoIdle
    /\ CondorIdle
    /\ PkgIdle
    /\ MirrorIdle
    /\ ConfigIdle
    /\ RepoIdle
    /\ ArgIdle
    /\ LinkIdle
    /\ \/ lgPrev = "absent" /\ lgNew = "absent" /\ lgLive = "absent"
       \/ lgPrev \in {"absent", "complete"} /\ lgNew = "complete" /\ lgLive = ".osg.new"
    /\ lgRun = 0
    /\ lgpc = "idle"
    /\ lgTag = 0
    /\ lgArch = 0
    /\ lgHosts = <<>>
    /\ lgIter = 0
    /\ lgList = <<>>
    /\ lgProbed = <<>>
    /\ lgAtStart = <<>>

NextLegacy ==
    \/ legacy_start
    \/ legacy_die
    \/ legacy_rm_prev
    \/ legacy_mv_new
    \/ legacy_unlink
    \/ legacy_symlink_prev
    \/ legacy_makedirs
    \/ legacy_test
    \/ legacy_probe
    \/ legacy_write
    \/ legacy_upcoming
    \/ legacy_unlink_live
    \/ legacy_symlink_new

SpecLegacy == InitLegacy /\ [][NextLegacy]_vars

\* ================================================================ claims

\* C1: for one lock path, under every interleaving of the steps of
\* acquire_lock and release_lock run by concurrent invocations, at most one
\* invocation at a time holds a lock handle returned by acquire_lock.
C1_MutualExclusion ==
    \A p \in Procs, q \in Procs : (p # q) => ~(Holds(p) /\ Holds(q))

\* C2: in every state, intermediate states of update_release_repos and all
\* failure outcomes included, the published path of a tag is absent or holds
\* exactly one complete tree: the tree published before the rotation or the
\* fully assembled working tree; never a mixture, a partial tree or an older
\* generation.
C2_PublishedOneCompleteTree ==
    \A t \in Tags :
        \/ published[t] = Absent
        \/ /\ Complete(published[t])
           /\ published[t] \in {pubAtRot[t], workAtRot[t]}

\* a rotation released a new tree over an existing, different published tree
C2_Witness ==
    /\ pc = "rot_ret"
    /\ pending = "none"
    /\ Exists(pubAtRot[tag])
    /\ published[tag] = workAtRot[tag]
    /\ published[tag] # pubAtRot[tag]

\* C3: when a published tree exists and update_release_repos returns
\* normally, the previous path holds the pre-rotation published tree, the
\* published path holds the pre-rotation working tree, and the working path
\* no longer exists.
C3_RotationResult ==
    (pc = "rot_ret" /\ pending = "none" /\ Exists(pubAtRot[tag]))
        => /\ previous[tag] = pubAtRot[tag]
           /\ published[tag] = workAtRot[tag]
           /\ working[tag] = Absent

\* a normal return of a rotation that found a published and a previous tree
C3_Witness ==
    /\ pc = "rot_ret"
    /\ pending = "none"
    /\ Exists(pubAtRot[tag])
    /\ Exists(prevAtRot[tag])
    /\ previous[tag] = pubAtRot[tag]

\* C4 as stated: when the move of published to previous succeeded and the
\* final move fails, previous is moved back so that published holds its
\* pre-rotation content, and the call raises TagFailure.
C4_RollbackAlwaysRestores ==
    (pc = "rot_ret" /\ rotMoved /\ rotFinalFailed)
        => /\ published[tag] = pubAtRot[tag]
           /\ pending = "TagFailure"

\* C4: when the move of published to previous succeeded and the final move
\* fails, the call raises TagFailure and the move back is attempted: if it
\* succeeds published holds its pre-rotation content and previous is absent,
\* if it raises OSError published stays absent and previous keeps the
\* pre-rotation published tree.
C4_RollbackAttempted ==
    (pc = "rot_ret" /\ rotMoved /\ rotFinalFailed)
        => /\ pending = "TagFailure"
           /\ \/ /\ rotRollback = "done"
                 /\ published[tag] = pubAtRot[tag]
                 /\ previous[tag] = Absent
              \/ /\ rotRollback = "failed"
                 /\ published[tag] = Absent
                 /\ previous[tag] = pubAtRot[tag]

\* the final move failed and the move back put the published tree in place
C4_Witness ==
    /\ pc = "rot_ret"
    /\ rotMoved
    /\ rotFinalFailed
    /\ rotRollback = "done"
    /\ published[tag] = pubAtRot[tag]

\* C5: when the working path does not exist, update_release_repos raises
\* TagFailure and leaves the published and previous paths untouched.
C5_MissingWorking ==
    (pc = "rot_ret" /\ ~Exists(workAtRot[tag]))
        => /\ pending = "TagFailure"
           /\ published[tag] = pubAtRot[tag]
           /\ previous[tag] = prevAtRot[tag]

\* a rotation without a working tree ended, published and previous in place
C5_Witness ==
    /\ pc = "rot_ret"
    /\ ~Exists(workAtRot[tag])
    /\ pending = "TagFailure"
    /\ Exists(published[tag])
    /\ Exists(previous[tag])

\* C6: whatever step of a tag's pipeline fails, run_one_tag returns
\* (False, message) instead of raising, and the driver still attempts every
\* remaining tag once, in list order.  ProgramError, which the driver treats
\* as fatal by design, is left out here.
C6_FailuresAreReturned ==
    /\ (pc = "returned" /\ result.kind = "raise") => result.msg = "ProgramError"
    /\ (pc = "exited" /\ attempted # <<>> /\ exitcode # ERR_RSYNC)
           => attempted = SubSeq(Taglist, 1, taglen)

\* the lock of the running tag was acquired by this call of run_one_tag: the
\* step after the lock step has started
Acquired == lock_dir /\ Len(steps) >= 3

\* C7 as stated: once the lock is acquired it is unlocked, its handle closed
\* and the lock file removed before run_one_tag returns or propagates, on
\* every exit path.
C7_LockFileAlwaysRemoved ==
    (pc = "returned" /\ Acquired)
        => /\ lockHolder = "free"
           /\ ~lock_fh
           /\ ~lockFile

\* C7: once the lock is acquired it is unlocked and its handle closed before
\* run_one_tag returns or propagates, on every exit path (success,
\* TagFailure, any other exception), and the lock file is removed unless
\* os.unlink raises OSError; the lock is not held by this invocation when the
\* next tag is attempted.
C7_LockReleased ==
    /\ (pc = "returned" /\ Acquired)
           => /\ lockHolder = "free"
              /\ ~lock_fh
              /\ released # "no"
              /\ lockFile => released = "unlink_failed"
    /\ (pc \in {"loop", "exited"}) => (lockHolder = "free" /\ ~lock_fh)

\* run_one_tag propagates an exception after it acquired and released the lock
C7_Witness ==
    /\ pc = "returned"
    /\ Acquired
    /\ result.kind = "raise"
    /\ released = "clean"
    /\ lockHolder = "free"

\* C8: when an invocation calls flock while another invocation holds the
\* tag's lock, acquire_lock returns None: the caller gets "Another run in
\* progress", runs no pipeline step, does not unlink the lock file and does
\* not release the holder's lock.
C8_ContentionReturnsNone ==
    [][\A p \in Procs :
          (/\ lpc[p] = "flock"
           /\ lpc'[p] # "flock"
           /\ \E q \in Procs : q # p /\ Holds(q))
             => /\ lres'[p] = "busy"
                /\ lpc'[p] = "done"
                /\ pathIno' = pathIno
                /\ flockOwner' = flockOwner]_vars

\* the steps run so far are an initial part of the fixed order; the lock step
\* is skipped when no lock directory is configured
StepsExpected ==
    IF lock_dir THEN StepOrder
    ELSE [i \in 1..(Len(StepOrder) - 1) |->
             IF i = 1 THEN StepOrder[1] ELSE StepOrder[i + 1]]

\* C9: the steps of a tag run in the fixed order, each only after the earlier
\* ones succeeded; the first failing step ends the tag with (False, message)
\* and no later step runs; (True, "") is returned only after the rotation
\* succeeded.  ProgramError is left out as in C6.
C9_StepOrder ==
    /\ Len(steps) <= Len(StepsExpected)
    /\ \A i \in 1..Len(steps) : steps[i] = StepsExpected[i]
    /\ pc = "returned"
          => /\ result.kind = "raise" => result.msg = "ProgramError"
             /\ result.kind = "return" /\ result.ok
                    => (steps = StepsExpected /\ pending = "none")

\* positions of run_one_tag before update_release_repos is called
BeforeRotation ==
    /\ pc \in {"makedirs", "lock", "latest", "koji", "condor", "pkglist",
               "createrepo", "symlink", "finally", "returned"}
    /\ \A i \in 1..Len(steps) : steps[i] # "rotation"

\* C10: a failure at any step before the rotation leaves the published and
\* previous trees of the tag exactly as they were when run_one_tag started.
C10_FailureBeforeRotation ==
    BeforeRotation
        => /\ published[tag] = pubAtStart
           /\ previous[tag] = prevAtStart

\* the transfer from koji failed after writing into the working tree
C10_Witness ==
    /\ pc = "returned"
    /\ result.kind = "return"
    /\ ~result.ok
    /\ steps[Len(steps)] = "koji"
    /\ working[tag].stage = "partial"
    /\ Exists(published[tag])
    /\ Exists(previous[tag])

\* C11: every modification run_one_tag makes to the working, published or
\* previous tree of a tag happens while this invocation holds the tag's lock
\* (read for runs with a lock directory; locking can be switched off).
C11_ModifiedOnlyUnderLock ==
    [][\A t \in Tags :
          (/\ lock_dir
           /\ \/ working'[t] # working[t]
              \/ published'[t] # published[t]
              \/ previous'[t] # previous[t])
             => lock_fh]_vars

\* C12: every invocation of run_one_tag eventually returns (and so releases
\* its lock), even if a remote endpoint stops responding: a network-bound
\* step is bounded by a timeout and fails the tag instead of hanging.
C12_EventuallyReturns ==
    (pc = "makedirs") ~> (pc = "returned")

\* the exit codes C13 lets a transfer of the given kind end with without
\* failing the tag
Tolerated(kind, code) == code = 0 \/ (kind = "debug" /\ code = 23)

\* C13: in pull_condor_repos a debug-RPM transfer exiting with 23 counts as
\* success and the tag continues; any other nonzero exit code of a debug
\* transfer and any nonzero exit code, 23 included, of a binary or source
\* transfer raises TagFailure and stops the remaining transfers.
C13_CondorExitCodes ==
    /\ \A i \in 1..(Len(cLog) - 1) : Tolerated(cLog[i].kind, cLog[i].code)
    /\ Len(cLog) > 0 =>
          LET last == cLog[Len(cLog)] IN
             IF Tolerated(last.kind, last.code)
             THEN cResult \in {"none", "ok", "ProgramError"}
             ELSE cResult = "TagFailure" /\ cpc = "done"
    /\ cResult = "ok" =>
          \A a \in 1..cNArch, r \in 1..cNRepo :
             \E i \in 1..Len(cLog) :
                cLog[i].kind = "debug" /\ cLog[i].arch = a /\ cLog[i].repo = r

\* a debug transfer ended with 23 and the transfers went on to the end
C13_Witness ==
    /\ cResult = "ok"
    /\ \E i \in 1..Len(cLog) : cLog[i].kind = "debug" /\ cLog[i].code = 23
    /\ cNArch = 2

\* a relative path followed from a directory: ".." steps up, "." stays
RECURSIVE Follow(_, _)
Follow(at, rel) ==
    IF rel = <<>> THEN at
    ELSE IF Head(rel) = ".." THEN Follow(SubSeq(at, 1, Len(at) - 1), Tail(rel))
    ELSE IF Head(rel) = "." THEN Follow(at, Tail(rel))
    ELSE Follow(Append(at, Head(rel)), Tail(rel))

\* the directory a pkglist lies in
ListDir(L) == IF L[2] = "debug" THEN <<L[1], "debug">> ELSE <<L[1]>>

\* the lines read through the pkglist path of a list
Content(L) ==
    IF pName[<<L, "pkglist">>] = "none" THEN {}
    ELSE pData[<<L, pName[<<L, "pkglist">>]>>].lines

\* the lines of a list that lead to the file f
Entries(f, L) ==
    {ln \in Content(L) : ln.name = f.name /\ Follow(ListDir(L), ln.dir) = DirPath(f)}

\* C14: after update_pkglist_files, a file under src/Packages named *.src.rpm
\* is in src/pkglist only; a file under <arch>/Packages named *.rpm is in
\* exactly one of <arch>/pkglist and <arch>/debug/pkglist: in the debug list,
\* with a path starting with "..", iff its name contains -debuginfo or
\* -debugsource, else in the architecture list with the path relative to the
\* architecture directory; a file not named *.rpm is in no list.
C14_PkglistClassification ==
    pResult = "ok" =>
       \A f \in pFiles :
          LET in == {L \in Lists : Entries(f, L) # {}}
              rpm == EndsWith(f.name, <<".rpm">>)
              dbg == Contains(f.name, "-debuginfo") \/ Contains(f.name, "-debugsource")
          IN /\ ~rpm => in = {}
             /\ (f.top = "src" /\ EndsWith(f.name, <<".src", ".rpm">>))
                    => in = {<<"src", "main">>}
             /\ (f.top # "src" /\ rpm /\ dbg)
                    => /\ in = {<<f.top, "debug">>}
                       /\ \A ln \in Entries(f, <<f.top, "debug">>) : ln.dir[1] = ".."
             /\ (f.top # "src" /\ rpm /\ ~dbg)
                    => /\ in = {<<f.top, "main">>}
                       /\ \A ln \in Entries(f, <<f.top, "main">>) :
                             ln.dir = <<"Packages">> \o f.dir

\* a debugsource package and a plain package of one architecture were listed
C14_Witness ==
    /\ pResult = "ok"
    /\ \E f \in pFiles, g \in pFiles :
          /\ f.top = g.top
          /\ f.top # "src"
          /\ f.dir = <<"f">>
          /\ Contains(f.name, "-debugsource")
          /\ Entries(f, <<f.top, "debug">>) # {}
          /\ Entries(g, <<g.top, "main">>) # {}

\* C15: update_pkglist_files never truncates or rewrites a pkglist in place:
\* at every step the content read through an existing pkglist path, and
\* through a hard link to the old file, is the complete old list or the
\* complete new list, and a failure while writing leaves the old list as it
\* was.
C15_PkglistNeverPartial ==
    \A L \in Lists :
       /\ pName[<<L, "pkglist">>] = "old" => pData[<<L, "old">>] = OldList
       /\ pName[<<L, "pkglist">>] = "new" => pData[<<L, "new">>] = NewList(L)
       /\ pData[<<L, "old">>] \in {Missing, OldList}

\* writing a new list failed while the old list was in place
C15_Witness ==
    /\ pResult = "TagFailure"
    /\ \E L \in Lists :
          /\ pName[<<L, "pkglist">>] = "old"
          /\ pName[<<L, "pkglist.new">>] = "new"
          /\ pData[<<L, "new">>].state = "open"
          /\ pData[<<L, "old">>] = OldList

\* the candidates that probed good for architecture a
GoodFor(a) == {h \in Hosts : mProbed[<<a, h>>] = "good"}

\* C16: after update_mirrors_for_tag returned (True, ""), the published
\* mirror list of the tag holds, for every architecture of the tag, exactly
\* the base URLs of the candidates that probed good for that architecture.
C16_PublishedListComplete ==
    (mpc = "done" /\ mResult = Return(TRUE, ""))
        => FileLines(published[tag]) =
              {k \in (1..mNArch) \X Hosts : k[2] \in GoodFor(k[1])}

\* C17: test_single_mirror reports good exactly when the response has status
\* 200, carries a Last-Modified date and that date is less than 24 hours
\* old; a non-200 status, a missing header or an age of 24 hours or more is
\* reported as not good.
C17_GoodIffFresh ==
    (mLast.out # "none")
        => /\ (mLast.out = "good")
                 <=> (/\ mLast.status = HTTP_OK
                      /\ mLast.header = "date"
                      /\ mLast.age < MAX_AGE_HOURS)
           /\ (\/ mLast.status \notin {0, HTTP_OK}
               \/ (mLast.status = HTTP_OK /\ mLast.header = "none")
               \/ (mLast.status = HTTP_OK /\ mLast.header = "date"
                      /\ mLast.age >= MAX_AGE_HOURS))
                 => mLast.out = "notgood"

\* every candidate was probed for architecture a and none is good
NoGoodMirror(a) == \A h \in Hosts : mProbed[<<a, h>>] \in {"notgood", "raise"}

\* C18: when for some architecture of the tag no candidate is good,
\* update_mirrors_for_tag returns (False, message) and the mirror working,
\* previous and published paths are as they were.
C18_NoGoodMirrorFails ==
    (mpc = "done" /\ \E a \in 1..mNArch : NoGoodMirror(a))
        => /\ mResult.kind = "return"
           /\ ~mResult.ok
           /\ working[tag] = workAtRot[tag]
           /\ published[tag] = pubAtStart
           /\ previous[tag] = prevAtStart

\* C19: update_mirrors_for_tag always ends by returning an (ok, message)
\* pair; no exception leaves it.
C19_AlwaysReturnsPair == (mpc = "done") => mResult.kind = "return"

\* C20: update_mirrors_for_tag writes the mirror working file and rotates
\* the mirror paths only while the invocation holds the "mirrors" lock, and
\* no two invocations are between their write and the end of their rotation
\* at the same time.
C20_MirrorUpdateUnderLock ==
    /\ [][\A p \in Procs : (lmir'[p] # lmir[p]) => Holds(p)]_vars
    /\ [](\A p \in Procs, q \in Procs :
             (p # q) => ~(lmir[p] = "written" /\ lmir[q] = "written"))

\* the tags recorded as successful, and as failed
SuccessfulTags == {successful[i] : i \in 1..Len(successful)}
FailedTags == {failed[i][1] : i \in 1..Len(failed)}

\* C21: after main has iterated the tag list the exit code is ERR_FAILURES
\* if some tag returned not ok, ERR_EMPTY if no tag was attempted and 0
\* otherwise, and every attempted tag is recorded in exactly one of
\* successful and failed; a tag is recorded according to what run_one_tag
\* returned for it.
C21_ExitCodeAndRecords ==
    /\ []((pc = "exited" /\ idx > taglen /\ exitcode # ERR_CONFIG)
            => /\ exitcode = IF FailedTags # {} THEN ERR_FAILURES
                             ELSE IF attempted = <<>> THEN ERR_EMPTY ELSE 0
               /\ SuccessfulTags \cup FailedTags = {attempted[i] : i \in 1..Len(attempted)}
               /\ SuccessfulTags \cap FailedTags = {}
               /\ Len(successful) + Len(failed) = Len(attempted))
    /\ [][(pc = "returned" /\ pc' # "returned" /\ result.kind = "return")
            => IF result.ok
               THEN tag \in SuccessfulTags' /\ failed' = failed
               ELSE tag \in FailedTags' /\ successful' = successful]_vars

\* a run ends with one tag successful and one failed
C21_Witness ==
    /\ pc = "exited"
    /\ idx > taglen
    /\ exitcode = ERR_FAILURES
    /\ Len(successful) = 1
    /\ Len(failed) = 1

\* C22: when the listing of check_rsync exits nonzero or times out, the run
\* has ended with exit code ERR_RSYNC and no tag was attempted: no step of
\* run_one_tag ran, no lock is held, and the step that made the check
\* changed no tree and no lock file.
C22_UnreachableAbortsRun ==
    /\ []((listing \in {"failed", "timeout"})
            => /\ pc = "exited"
               /\ exitcode = ERR_RSYNC
               /\ attempted = <<>>
               /\ steps = <<>>
               /\ ~lock_fh)
    /\ [][(listing' \in {"failed", "timeout"}) => UNCHANGED <<fsVars, lockVars>>]_vars

\* a second run finds the endpoint unreachable while a published tree exists
C22_Witness ==
    /\ listing = "timeout"
    /\ pc = "exited"
    /\ run = 2
    /\ \E t \in Tags : Exists(published[t])

\* C23: every Tag get_taglist produces has a dest that neither begins nor
\* ends with "/", at least one architecture and a non-empty subpath for
\* arch_rpms_subdir and source_rpms_subdir; a section in which a required
\* option is missing or empty ends in a ConfigError.
C23_TagWellFormed ==
    /\ (gResult.kind = "tag")
          => /\ (gResult.dest # <<>>)
                   => (Head(gResult.dest) # "/" /\ gResult.dest[Len(gResult.dest)] # "/")
             /\ gResult.arches # <<>>
             /\ gResult.arch_rpms_subdir # <<>>
             /\ gResult.source_rpms_subdir # <<>>
    /\ (gpc = "done" /\ \E i \in 1..Len(REQUIRED_TAG_OPTIONS) :
                           NotSet(gSection, REQUIRED_TAG_OPTIONS[i]))
          => gResult.kind = "ConfigError"

\* C24: a call of update_release_repos that directly follows a successful
\* call with the same three paths raises TagFailure and leaves the published
\* and the previous tree as the first call left them.
C24_RepeatedRotation ==
    (pc = "rot_ret" /\ rotCalls = 2 /\ result = Return(TRUE, ""))
        => /\ pending = "TagFailure"
           /\ published[tag] = pubAtRot[tag]
           /\ previous[tag] = prevAtRot[tag]
           /\ ~Exists(working[tag])

\* the second call ended after a first call that rotated a published tree
\* to the previous path
C24_Witness ==
    /\ pc = "rot_ret"
    /\ rotCalls = 2
    /\ result = Return(TRUE, "")
    /\ Complete(published[tag])
    /\ Exists(previous[tag])

\* C25: when a successful run_one_tag follows an earlier successful run of
\* the same tag and upstream still points to the same snapshot, the
\* published tree is the same after both runs, and the previous tree exists
\* and is the published tree of the first run.
C25_SecondRunSameTree ==
    (/\ pc = "returned"
     /\ result = Return(TRUE, "")
     /\ run = 2
     /\ Complete(pubAtStart)
     /\ pubAtStart.snap = latest_dir)
        => /\ published[tag] = pubAtStart
           /\ previous[tag] = pubAtStart
           /\ Exists(previous[tag])

\* the second run of a tag succeeded on the snapshot the first run published
C25_Witness ==
    /\ pc = "returned"
    /\ result = Return(TRUE, "")
    /\ run = 2
    /\ Complete(pubAtStart)
    /\ pubAtStart.snap = latest_dir
    /\ "rotation" \in {steps[i] : i \in 1..Len(steps)}

\* C26: when main returns 0 it has written exactly one timestamp marker
\* file during the run; when it returns another code, or the run was
\* aborted, it has written none.
C26_MarkerOnSuccess ==
    (pc = "exited") => markers = IF exitcode = 0 THEN 1 ELSE 0

\* C27: a run of update_mirrors_for_tag in which every architecture has a
\* good mirror and that finds a previous mirror list succeeds: the previous
\* list is replaced by the list published before, and the list just
\* written is published.
C27_MirrorRunsSucceed ==
    (/\ mpc = "done"
     /\ steps # <<>>
     /\ Exists(prevAtRot[tag]))
        => /\ mResult = Return(TRUE, "")
           /\ previous[tag] = pubAtRot[tag]
           /\ published[tag] = workAtRot[tag]

\* the positions of a step in the steps of the tag run
StepsNamed(name) == {i \in DOMAIN steps : steps[i] = name}

\* C28: within one run_one_tag the "latest" pointer is read once, before the
\* koji transfer; the transfer copies the snapshot that read resolved, and a
\* repoint of "latest" after the read changes neither the resolved name nor
\* the tree transferred: as long as no step has raised, the working tree
\* holds the resolved snapshot.
C28_LatestReadOnce ==
    /\ [](/\ Cardinality(StepsNamed("latest")) <= 1
          /\ \A k \in StepsNamed("koji") : \E l \in StepsNamed("latest") : l < k)
    /\ [][(pc = "koji" /\ pc' = "condor")
             => /\ working'[tag] = Tree(latest_dir, "synced")
                /\ latest_dir' = latest_dir]_vars
    /\ []((/\ StepsNamed("koji") # {}
           /\ pending = "none"
           /\ Exists(working[tag])
           /\ working[tag].stage # "partial")
              => working[tag].snap = latest_dir)

\* a transfer has ended after "latest" was repointed away from the snapshot
\* the tag run resolved
C28_Witness ==
    /\ pc = "condor"
    /\ latest # latest_dir
    /\ working[tag] = Tree(latest_dir, "synced")

\* C29: when the final move fails and the move of previous back to the
\* published path fails too, update_release_repos still raises TagFailure;
\* the published path is absent, the pre-rotation published tree is at the
\* previous path and the working tree is still at the working path.
C29_RollbackFailed ==
    (pc = "rot_ret" /\ rotRollback = "failed")
        => /\ pending = "TagFailure"
           /\ published[tag] = Absent
           /\ Exists(pubAtRot[tag])
           /\ previous[tag] = pubAtRot[tag]
           /\ Exists(working[tag])
           /\ working[tag] = workAtRot[tag]

\* a rotation that found a published and a previous tree ended after both
\* the final move and the move back failed
C29_Witness ==
    /\ pc = "rot_ret"
    /\ rotFinalFailed
    /\ rotRollback = "failed"
    /\ Exists(prevAtRot[tag])
    /\ published[tag] = Absent
    /\ pending = "TagFailure"

\* the positions of update_release_repos after the old previous tree is
\* cleared
AfterClear == {"rot_mkprev", "rot_toprev", "rot_mkpub", "rot_final", "rot_rollback"}

C31_ReleaseErrorKeepsResult ==
    (pc = "returned" /\ released = "unlink_failed")
        => /\ (pending = "none")
                 => /\ result = Return(TRUE, "")
                    /\ published[tag] = workAtRot[tag]
           /\ (pending = "TagFailure") => result = Return(FALSE, "TagFailure")
           /\ (result.kind = "raise") => result.msg = pending

\* run_one_tag returned (True, "") after a rotation although the release of
\* the lock raised
C31_Witness ==
    /\ pc = "returned"
    /\ released = "unlink_failed"
    /\ lockFile
    /\ pending = "none"
    /\ result = Return(TRUE, "")

\* the invocations the metadata generator is expected to get for a list of
\* architectures, all successful
RECURSIVE ExpectedCreaterepo(_)
ExpectedCreaterepo(arches) ==
    IF arches = <<>> THEN <<Createrepo(<<"src">>, TRUE)>>
    ELSE LET a == arches[Len(arches)] IN
         ExpectedCreaterepo(SubSeq(arches, 1, Len(arches) - 1))
            \o <<Createrepo(<<a>>, TRUE), Createrepo(<<a, "debug">>, TRUE)>>

Transfers(kind, a, r) ==
    {i \in DOMAIN cLog : cLog[i].kind = kind /\ cLog[i].arch = a /\ cLog[i].repo = r}

\* C33: when pull_condor_repos returns normally it has made exactly one
\* binary and one debug transfer for each pair of architecture and repo and
\* exactly one source transfer for each repo, on the first architecture;
\* every transfer ran without delete and without recursion and wrote below
\* the working root.
C33_CondorTransfers ==
    /\ (cResult = "ok") =>
          /\ \A a \in 1..cNArch, r \in 1..cNRepo :
                /\ Cardinality(Transfers("binary", a, r)) = 1
                /\ Cardinality(Transfers("debug", a, r)) = 1
                /\ Cardinality(Transfers("source", a, r)) = IF a = 1 THEN 1 ELSE 0
          /\ Len(cLog) = 2 * cNArch * cNRepo + cNRepo
    /\ \A i \in DOMAIN cLog :
          /\ ~cLog[i].delete
          /\ ~cLog[i].recursive
          /\ cLog[i].dst_root = "working_root"
          /\ cLog[i].kind \in {"binary", "debug", "source"}
          /\ cLog[i].arch \in 1..cNArch
          /\ cLog[i].repo \in 1..cNRepo

\* pull_condor_repos returned after the transfers of two architectures and
\* two repos, every one of them ending with exit code 0
C33_Witness ==
    /\ cResult = "ok"
    /\ cNArch = 2
    /\ cNRepo = 2
    /\ Len(cLog) = 10
    /\ \A i \in DOMAIN cLog : cLog[i].code = RSYNC_OK

\* the positions of an argument in the argument list
ArgAt(arg) == {i \in DOMAIN raArgs : raArgs[i] = arg}

\* C35: the argument list of rsync_with_link begins with --times --stats,
\* holds --delete iff delete is set, --recursive iff recursive is set, --dirs
\* iff delete is set and recursive is not, --link-dest=<link_path> iff
\* link_path is given and exists on disk, and ends with the source followed
\* by the destination; it holds nothing else.
C35_RsyncArguments ==
    (rapc = "done") =>
        LET n == Len(raArgs)
            linked == raLink \notin {"None", ""} /\ raLinkExists
            count(b) == IF b THEN 1 ELSE 0 IN
        /\ n >= 4
        /\ raArgs[1] = <<"--times">>
        /\ raArgs[2] = <<"--stats">>
        /\ Cardinality(ArgAt(<<"--delete">>)) = count(raDelete)
        /\ Cardinality(ArgAt(<<"--recursive">>)) = count(raRecursive)
        /\ Cardinality(ArgAt(<<"--dirs">>)) = count(raDelete /\ ~raRecursive)
        /\ (ArgAt(<<"--delete">>) # {})
              => (ArgAt(<<"--recursive">>) # {} \/ ArgAt(<<"--dirs">>) # {})
        /\ ~(ArgAt(<<"--recursive">>) # {} /\ ArgAt(<<"--dirs">>) # {})
        /\ Cardinality({i \in DOMAIN raArgs : raArgs[i][1] = "--link-dest"}) = count(linked)
        /\ linked => ArgAt(<<"--link-dest", raLink>>) # {}
        /\ raArgs[n - 1] = <<raSource>>
        /\ raArgs[n] = <<raDest>>
        /\ n = 4 + count(raDelete) + count(raRecursive)
                 + count(raDelete /\ ~raRecursive) + count(linked)

\* a call without recursion and without delete, with a link path that exists
C35_Witness ==
    /\ rapc = "done"
    /\ ~raRecursive
    /\ ~raDelete
    /\ raLink = "dest/tag"
    /\ raLinkExists
    /\ Len(raArgs) = 5

\* the path a link at <root>/source/SRPMS with a relative target leads to
Resolved(root, target) == Follow(<<root, "source">>, target)

\* C34: whenever create_compat_symlink returns normally, source/SRPMS is a
\* symbolic link with the relative target ../src, which leads to
\* <published>/src once the tree is published; and the call returns
\* normally whenever <working>/source is a directory, source/SRPMS was
\* absent, a directory or a symbolic link to ../src before it and no OS call
\* failed for an outside reason.
C34_CompatSymlink ==
    /\ (slpc = "done" /\ slResult = "ok")
          => /\ slSRPMS = Entry("link", <<"..", "src">>)
             /\ Resolved("published", slSRPMS.target) = <<"published", "src">>
    /\ (/\ slpc = "done"
        /\ ~slFault
        /\ slSource = "dir"
        /\ slBefore \in {NoEntry, Entry("dir", <<>>), Entry("link", <<"..", "src">>)})
          => slResult = "ok"

\* C36: main never returns ERR_EMPTY: the tag loop is only reached with a
\* tag list that is not empty, an empty list ends the run with ERR_CONFIG,
\* and a run that completes the loop returns ERR_FAILURES or 0.
C36_NeverEmpty ==
    /\ exitcode # ERR_EMPTY
    /\ (pc \notin {"idle", "exited"}) => taglen > 0
    /\ (pc = "exited" /\ taglen = 0) => (exitcode = ERR_CONFIG /\ attempted = <<>>)
    /\ (pc = "exited" /\ taglen > 0 /\ idx > taglen)
          => /\ exitcode \in {ERR_FAILURES, 0}
             /\ Len(attempted) = taglen

\* the second run of the program ended with ERR_CONFIG because no tag was
\* selected
C36_Witness ==
    /\ pc = "exited"
    /\ taglen = 0
    /\ exitcode = ERR_CONFIG
    /\ run = 2

\* C37: during a run of the legacy update_mirror.py the name osg, whenever
\* it exists, leads to a completely written mirror tree: to .osg.prev while
\* .osg.new is rebuilt, to .osg.new only once every list file is written;
\* never to a tree under construction, and it is never dangling.
C37_LiveAlwaysComplete ==
    (lgLive # "absent") =>
        /\ LiveTree = "complete"
        /\ (lgpc \in {"makedirs", "test", "probe", "write", "upcoming", "unlink_live"})
              => lgLive = ".osg.prev"

\* C38: every call of test probes each host that is in mirrorhosts when the
\* call starts exactly once, also when hosts are removed during the call; a
\* host that was removed is not probed again in the run; the own url of the
\* repo is the first entry of the list.
C38_EveryHostProbedOnce ==
    /\ (lgpc \in {"probe", "write"})
          => /\ lgList # <<>>
             /\ lgList[1] = OwnHost
             /\ \A i \in DOMAIN lgProbed : \E j \in DOMAIN lgAtStart : lgAtStart[j] = lgProbed[i]
    /\ (lgpc = "write") => lgProbed = lgAtStart

====
